---- MODULE Spec2Model ----
(***************************************************************************)
(* A model of the document chatbot: the retrieval engine                   *)
(* (src/chatbot/retrieval.py: the tokenizer, the in-memory TF-IDF index,   *)
(* cosine-similarity search and the context assembler) and the document    *)
(* pipeline around it (src/chatbot/documents.py, src/app.py,               *)
(* src/chatbot/llm.py).                                                    *)
(*                                                                         *)
(* Strings are sequences of one-character strings.  A Python dict is a     *)
(* sequence of <<key, value>> pairs in insertion order.  Floats are        *)
(* fixed-point integers: TF-IDF weights and norms in hundredths (One),     *)
(* cosine scores and min_score in thousandths (ScoreOne).                  *)
(***************************************************************************)
EXTENDS Integers, Sequences, FiniteSets

VARIABLES
    called,     \* runs of one function: whether the function has returned
    text,       \* tokenizer and chunk_text runs: the input text
    terms,      \* tokenizer run: the returned list
    corpus,     \* the chunk list the caller passes to InMemoryTfidfIndex(...)
    indexes,    \* the InMemoryTfidfIndex objects constructed so far
    calls,      \* per caller: the frame of its search call
    results,    \* build_context run: the results argument
    max_chars,  \* build_context run: the max_chars argument
    context,    \* build_context run: the returned string
    chunk_size,     \* chunk_text and _process_uploads runs: the chunk_size argument
    chunk_overlap,  \* chunk_text and _process_uploads runs: the chunk_overlap argument
    text_chunks,    \* chunk_text run: the returned list
    error,          \* chunk_text run: the message of the ValueError raised, "" if none
    pdf,            \* extract_text_from_pdf run: the file (file_bytes) and its OCR engine
    enable_ocr,     \* extract_text_from_pdf run: the enable_ocr argument
    extraction,     \* extract_text_from_pdf run: the OCR calls made and the outcome
    uploaded_files, \* st.session_state["uploaded_files"]: name and bytes of each file
    session,        \* st.session_state: chunks, index (0 for None, else its place in
                    \* indexes) and messages
    ocr_setting,    \* the enable_pdf_ocr value the caller of _process_uploads holds
    sidebar,        \* the notices st.sidebar has shown, in order
    build_calls,    \* _process_uploads run: its calls of build_chunks_from_file
    question,       \* answer run: the question argument
    history,        \* answer run: the history argument
    client,         \* answer run: whether self._client is set
    completion,     \* answer run: what chat.completions.create does when called
    model_calls,    \* answer run: the messages argument of each call of the model
    response,       \* answer run: the returned string
    log             \* chat session: the runs of main so far, what each did

\* The state of the chunk_text runs
chunking_vars == <<chunk_size, chunk_overlap, text_chunks, error>>

\* The state of the extract_text_from_pdf runs
pdf_vars == <<pdf, enable_ocr, extraction>>

\* The state of the _process_uploads runs, the index objects apart
app_vars == <<uploaded_files, session, ocr_setting, sidebar, build_calls, log>>

\* The state of the AnswerGenerator.answer runs, the results argument apart
answer_vars == <<question, history, client, completion, model_calls, response>>

\* The state of the document pipeline, which the retrieval runs leave alone
pipeline_vars == <<chunking_vars, pdf_vars, app_vars, answer_vars>>

vars == <<called, text, terms, corpus, indexes, calls, results, max_chars, context,
          pipeline_vars>>

(***************************************************************************)
(* Characters and strings                                                  *)
(***************************************************************************)
UpperLetters ==
    <<"A","B","C","D","E","F","G","H","I","J","K","L","M",
      "N","O","P","Q","R","S","T","U","V","W","X","Y","Z">>

LowerLetters ==
    <<"a","b","c","d","e","f","g","h","i","j","k","l","m",
      "n","o","p","q","r","s","t","u","v","w","x","y","z">>

Digits == <<"0","1","2","3","4","5","6","7","8","9">>

Range(s) == {s[i] : i \in DOMAIN s}

\* [A-Za-z0-9]
AsciiAlphanumerics == Range(UpperLetters) \cup Range(LowerLetters) \cup Range(Digits)

\* [A-Za-z0-9]: the first character of a term
IsTermStart(c) == c \in AsciiAlphanumerics

\* [A-Za-z0-9'-]: a later character of a term
IsTermChar(c) == IsTermStart(c) \/ c \in {"'", "-"}

LowerOf == [c \in Range(UpperLetters) |->
               LowerLetters[CHOOSE i \in DOMAIN UpperLetters : UpperLetters[i] = c]]

\* str.lower() on one character of a match (matches hold ASCII only)
LowerChar(c) == IF c \in DOMAIN LowerOf THEN LowerOf[c] ELSE c

lower(s) == [i \in DOMAIN s |-> LowerChar(s[i])]

(***************************************************************************)
(* tokenize: TOKEN_PATTERN.finditer scans left to right; at a position     *)
(* where the pattern matches it takes the longest match and resumes after  *)
(* it, elsewhere it moves one character on.                                *)
(***************************************************************************)
RECURSIVE MatchEnd(_, _)
MatchEnd(s, i) ==
    IF i <= Len(s) /\ IsTermChar(s[i]) THEN MatchEnd(s, i + 1) ELSE i

\* A mutant of the pattern: [A-Za-z0-9'-]+ (any term character may start)
TokenStartsAtLoose(s, i) == IsTermChar(s[i])

TokenStartsAt(s, i) == IsTermStart(s[i])

RECURSIVE FindIter(_, _)
FindIter(s, i) ==
    IF i > Len(s) THEN <<>>
    ELSE IF TokenStartsAt(s, i)
         THEN LET e == MatchEnd(s, i + 1)
              IN  <<lower(SubSeq(s, i, e - 1))>> \o FindIter(s, e)
         ELSE FindIter(s, i + 1)

tokenize(s) == FindIter(s, 1)

(***************************************************************************)
(* Inputs of the tokenizer runs                                            *)
(***************************************************************************)
MaxTextLen == 4

TextAlphabet == {"a", "B", "7", "'", "-", " ", "!"}

RECURSIVE StringsUpTo(_, _)
StringsUpTo(A, n) ==
    IF n = 0 THEN {<<>>}
    ELSE LET shorter == StringsUpTo(A, n - 1)
         IN  shorter \cup {Append(s, c) : s \in {x \in shorter : Len(x) = n - 1}, c \in A}

Tokenize ==
    /\ ~called
    /\ called' = TRUE
    /\ terms' = tokenize(text)
    /\ UNCHANGED <<text, corpus, indexes, calls, results, max_chars, context, pipeline_vars>>

(***************************************************************************)
(* Python dicts and Counters (insertion-ordered)                           *)
(***************************************************************************)
Has(d, k) == \E i \in DOMAIN d : d[i][1] = k

\* dict.get(k) for a key that is present
Get(d, k) == d[CHOOSE i \in DOMAIN d : d[i][1] = k][2]

\* dict.get(k, 0.0)
GetOrZero(d, k) == IF Has(d, k) THEN Get(d, k) ELSE 0

\* counter[k] += 1
Increment(d, k) ==
    IF Has(d, k)
    THEN [i \in DOMAIN d |-> IF d[i][1] = k THEN <<k, d[i][2] + 1>> ELSE d[i]]
    ELSE Append(d, <<k, 1>>)

\* Counter.update(keys), keys iterated in the given order
RECURSIVE Update(_, _)
Update(d, keys) ==
    IF keys = <<>> THEN d ELSE Update(Increment(d, Head(keys)), Tail(keys))

Counter(keys) == Update(<<>>, keys)

RECURSIVE Sum(_)
Sum(s) == IF s = <<>> THEN 0 ELSE Head(s) + Sum(Tail(s))

RECURSIVE Max(_)
Max(s) ==
    IF Len(s) = 1 THEN Head(s)
    ELSE LET m == Max(Tail(s)) IN IF Head(s) >= m THEN Head(s) ELSE m

(***************************************************************************)
(* Fixed-point arithmetic                                                  *)
(***************************************************************************)
\* 1.0 as a weight
One == 100

\* 1.0 as a cosine score
ScoreOne == 1000

\* math.log(n) in hundredths, n = 1..12
LogTable == <<0, 69, 110, 139, 161, 179, 195, 208, 220, 230, 240, 248>>

\* math.log(p / q)
Log(p, q) == LogTable[p] - LogTable[q]

\* math.sqrt: the largest r with r * r <= n
RECURSIVE SqrtBetween(_, _, _)
SqrtBetween(n, lo, hi) ==
    IF lo = hi THEN lo
    ELSE LET mid == (lo + hi + 1) \div 2
         IN  IF mid * mid <= n THEN SqrtBetween(n, mid, hi)
             ELSE SqrtBetween(n, lo, mid - 1)

Sqrt(n) == SqrtBetween(n, 0, IF n < 46340 THEN n ELSE 46340)

\* math.sqrt(sum(weight * weight for weight in vector.values()))
Norm(vector) == Sqrt(Sum([i \in DOMAIN vector |-> vector[i][2] * vector[i][2]]))

(***************************************************************************)
(* InMemoryTfidfIndex                                                      *)
(***************************************************************************)
\* The orders in which a Python set may be iterated
Orders(S) ==
    {s \in [1..Cardinality(S) -> S] : \A i, j \in 1..Cardinality(S) : i # j => s[i] # s[j]}

\* One iteration order for set(terms) of every chunk
RECURSIVE SetOrders(_)
SetOrders(tokenized_chunks) ==
    IF tokenized_chunks = <<>> THEN {<<>>}
    ELSE {<<o>> \o rest : o \in Orders(Range(Head(tokenized_chunks))),
                         rest \in SetOrders(Tail(tokenized_chunks))}

\* for terms in tokenized_chunks: doc_frequencies.update(set(terms))
RECURSIVE DocFrequencies(_, _)
DocFrequencies(doc_frequencies, set_orders) ==
    IF set_orders = <<>> THEN doc_frequencies
    ELSE DocFrequencies(Update(doc_frequencies, Head(set_orders)), Tail(set_orders))

\* A mutant of the IDF comprehension: enumerate(doc_frequencies) in place of
\* .items(), so that a term's position stands in for its document frequency
IdfByPosition(doc_frequencies, num_docs) ==
    [i \in DOMAIN doc_frequencies |->
        <<doc_frequencies[i][1],
          Log(num_docs + 1, (IF i - 1 <= num_docs THEN i - 1 ELSE num_docs) + 1) + One>>]

\* math.log((num_docs + 1) / (doc_freq + 1)) + 1.0 for every term
Idf(doc_frequencies, num_docs) ==
    [i \in DOMAIN doc_frequencies |->
        <<doc_frequencies[i][1], Log(num_docs + 1, doc_frequencies[i][2] + 1) + One>>]

\* What a call of _vectorize_terms leaves in self._idf: it only reads it.
\* A mutant: unseen terms are cached with the weight 1.0
IdfAfterVectorizeCaching(idf, term_list) ==
    LET term_counts == Counter(term_list)
        unseen == SelectSeq([i \in DOMAIN term_counts |-> term_counts[i][1]],
                            LAMBDA t : ~Has(idf, t))
    IN  idf \o [i \in DOMAIN unseen |-> <<unseen[i], One>>]

IdfAfterVectorize(idf, term_list) == idf

\* A mutant of the IDF lookup: self._idf.get(term, 1.0), unseen terms kept
VectorizeWithDefaultIdf(idf, term_list) ==
    LET term_counts == Counter(term_list)
    IN  IF term_counts = <<>> THEN <<>>
        ELSE LET max_frequency == Max([i \in DOMAIN term_counts |-> term_counts[i][2]])
             IN  [i \in DOMAIN term_counts |->
                    <<term_counts[i][1],
                      (term_counts[i][2]
                         * (IF Has(idf, term_counts[i][1]) THEN Get(idf, term_counts[i][1])
                            ELSE One)) \div max_frequency>>]

\* _vectorize_terms: max-normalised term frequency times IDF
_vectorize_terms(idf, term_list) ==
    LET term_counts == Counter(term_list)
    IN  IF term_counts = <<>> THEN <<>>
        ELSE LET max_frequency == Max([i \in DOMAIN term_counts |-> term_counts[i][2]])
                 known == SelectSeq(term_counts, LAMBDA tc : Has(idf, tc[1]))
             IN  [i \in DOMAIN known |->
                    <<known[i][1], (known[i][2] * Get(idf, known[i][1])) \div max_frequency>>]

\* A mutant of the vector loop of _build: chunks without terms are skipped
RECURSIVE VectorsSkippingEmpty(_, _)
VectorsSkippingEmpty(idf, tokenized_chunks) ==
    IF tokenized_chunks = <<>> THEN <<>>
    ELSE (IF Head(tokenized_chunks) = <<>> THEN <<>>
          ELSE <<_vectorize_terms(idf, Head(tokenized_chunks))>>)
         \o VectorsSkippingEmpty(idf, Tail(tokenized_chunks))

\* for terms in tokenized_chunks: self._vectors.append(vector)
RECURSIVE Vectors(_, _)
Vectors(idf, tokenized_chunks) ==
    IF tokenized_chunks = <<>> THEN <<>>
    ELSE <<_vectorize_terms(idf, Head(tokenized_chunks))>>
         \o Vectors(idf, Tail(tokenized_chunks))

\* __init__ and _build, the sets of terms iterated in set_orders
InMemoryTfidfIndex(chunks, set_orders) ==
    IF chunks = <<>>
    THEN [chunks |-> chunks, _idf |-> <<>>, _vectors |-> <<>>, _norms |-> <<>>]
    ELSE LET tokenized_chunks == [i \in DOMAIN chunks |-> tokenize(chunks[i].text)]
             idf == Idf(DocFrequencies(<<>>, set_orders), Len(chunks))
             vectors == Vectors(idf, tokenized_chunks)
         IN  [chunks |-> chunks, _idf |-> idf, _vectors |-> vectors,
              _norms |-> [i \in DOMAIN vectors |-> Norm(vectors[i])]]

(***************************************************************************)
(* search                                                                  *)
(***************************************************************************)
\* _dot: iterate over the smaller dict
_dot(left, right) ==
    LET small == IF Len(left) > Len(right) THEN right ELSE left
        large == IF Len(left) > Len(right) THEN left ELSE right
    IN  Sum([i \in DOMAIN small |-> small[i][2] * GetOrZero(large, small[i][1])])

\* self._dot(query_vector, vector) / (query_norm * chunk_norm)
Cosine(query_vector, query_norm, vector, chunk_norm) ==
    (_dot(query_vector, vector) * ScoreOne) \div (query_norm * chunk_norm)

\* A mutant of the zero-norm guard: no chunk is skipped, a zero norm scores 0.0
SkipsChunkNever(chunk_norm) == FALSE

\* if chunk_norm == 0.0: continue
SkipsChunk(chunk_norm) == chunk_norm = 0

\* if score >= min_score
KeepsScore(score, min_score) == score >= min_score

\* A mutant of the sort: ascending (reverse=True dropped)
ComesBeforeAscending(left, right) == left.score <= right.score

\* A mutant of the sort: descending, but a later result goes ahead of the
\* earlier ones of its score
ComesBeforeUnstable(left, right) == left.score > right.score

\* Whether left stays ahead of right, left being the earlier of the two, in
\* list.sort(key=score, reverse=True): the sort is stable
ComesBefore(left, right) == left.score >= right.score

RECURSIVE InsertSorted(_, _)
InsertSorted(sorted, r) ==
    IF sorted = <<>> THEN <<r>>
    ELSE IF ComesBefore(Head(sorted), r)
         THEN <<Head(sorted)>> \o InsertSorted(Tail(sorted), r)
         ELSE <<r>> \o sorted

RECURSIVE Sort(_)
Sort(scored) ==
    IF scored = <<>> THEN <<>>
    ELSE InsertSorted(Sort(SubSeq(scored, 1, Len(scored) - 1)), scored[Len(scored)])

\* A mutant of the slice: scored[:top_k + 1]
SliceOneMore(scored, top_k) ==
    IF top_k + 1 >= 0
    THEN SubSeq(scored, 1, IF top_k + 1 < Len(scored) THEN top_k + 1 ELSE Len(scored))
    ELSE SubSeq(scored, 1, Len(scored) + top_k + 1)

\* scored[:top_k], a negative top_k counting from the end
Slice(scored, top_k) ==
    IF top_k >= 0 THEN SubSeq(scored, 1, IF top_k < Len(scored) THEN top_k ELSE Len(scored))
    ELSE SubSeq(scored, 1, Len(scored) + top_k)

\* The frame of a search call.  pc: "idle" (no call), "loop" (in the for loop,
\* about to visit chunk number index), "done" (returned result), "raised" (left
\* by an exception)
IdleFrame ==
    [pc |-> "idle", self |-> 0, query |-> <<>>, top_k |-> 0, min_score |-> 0,
     query_vector |-> <<>>, query_norm |-> 0, index |-> 0, scored |-> <<>>,
     result |-> <<>>]

\* search up to the loop: the three early returns, else the query vector
Enter(ix, self, query, top_k, min_score) ==
    LET query_terms == tokenize(query)
        query_vector == _vectorize_terms(self._idf, query_terms)
        query_norm == Norm(query_vector)
        frame == [IdleFrame EXCEPT !.self = ix, !.query = query, !.top_k = top_k,
                                   !.min_score = min_score]
    IN  IF self.chunks = <<>> \/ query_terms = <<>> \/ query_vector = <<>>
           \/ query_norm = 0
        THEN [frame EXCEPT !.pc = "done"]
        ELSE [frame EXCEPT !.pc = "loop", !.query_vector = query_vector,
                           !.query_norm = query_norm, !.index = 1]

\* One pass of the body of the for loop.  An index past the end of _norms or
\* _vectors raises IndexError, a division by zero raises ZeroDivisionError
Iterate(self, frame) ==
    IF frame.index > Len(self._norms) THEN [frame EXCEPT !.pc = "raised"]
    ELSE LET chunk_norm == self._norms[frame.index]
         IN  IF SkipsChunk(chunk_norm) THEN [frame EXCEPT !.index = @ + 1]
             ELSE IF frame.index > Len(self._vectors) \/ frame.query_norm * chunk_norm = 0
                  THEN [frame EXCEPT !.pc = "raised"]
                  ELSE LET score == Cosine(frame.query_vector, frame.query_norm,
                                           self._vectors[frame.index], chunk_norm)
                       IN  IF KeepsScore(score, frame.min_score)
                           THEN [frame EXCEPT
                                    !.index = @ + 1,
                                    !.scored = Append(@, [chunk |-> self.chunks[frame.index],
                                                          score |-> score])]
                           ELSE [frame EXCEPT !.index = @ + 1]

\* After the loop: sort and slice
Leave(frame) ==
    [frame EXCEPT !.pc = "done", !.result = Slice(Sort(frame.scored), frame.top_k)]

RECURSIVE Run(_, _)
Run(self, frame) ==
    IF frame.pc \in {"done", "raised"} THEN frame
    ELSE IF frame.index > Len(self.chunks) THEN Leave(frame)
         ELSE Run(self, Iterate(self, frame))

\* A whole call of search on the index object self: the frame it ends in
Call(ix, self, query, top_k, min_score) ==
    Run(self, Enter(ix, self, query, top_k, min_score))

\* The list a whole call returns
search(self, query, top_k, min_score) == Call(0, self, query, top_k, min_score).result

(***************************************************************************)
(* Inputs of the index runs                                                *)
(***************************************************************************)
MaxChunks == 2

MaxIndexes == 2

\* "a b", "B b c", "--" (no term)
TextPool == {<<"a", " ", "b">>, <<"B", " ", "b", " ", "c">>, <<"-", "-">>}

\* "b", "C a", "z" (in no chunk), "!" (no term)
Queries == {<<"b">>, <<"C", " ", "a">>, <<"z">>, <<"!">>}

\* top_k: 5 is the default; -1 slices like a Python list, all but the last
TopKs == {-1, 0, 1, 5}

\* min_score: -0.1, 0.05 (the default), 0.7, 1.1
MinScores == {-100, 50, 700, 1100}

SourceName == <<"s", ".", "p", "d", "f">>

Chunk(i, chunk_text) ==
    [chunk_id |-> <<"c", Digits[i + 1]>>, source_name |-> SourceName, text |-> chunk_text]

ChunkLists ==
    UNION {{[i \in 1..n |-> Chunk(i, texts[i])] : texts \in [1..n -> TextPool]} :
           n \in 0..MaxChunks}

Callers == {"t1", "t2"}

TokIdle == text = <<>> /\ terms = <<>>

CtxIdle == results = <<>> /\ max_chars = 0 /\ context = <<>>

ChunkingIdle == chunk_size = 0 /\ chunk_overlap = 0 /\ text_chunks = <<>> /\ error = ""

\* The outcome of extract_text_from_pdf before it has run
NoExtraction == [raised |-> FALSE, text |-> <<>>, ocr_calls |-> <<>>, page_texts |-> <<>>]

PdfIdle ==
    /\ pdf = [opens |-> TRUE, pages |-> <<>>, ocr_works |-> FALSE]
    /\ enable_ocr = FALSE
    /\ extraction = NoExtraction

\* _initialize_state(): the session before any upload is processed
FreshSession == [chunks |-> <<>>, index |-> 0, messages |-> <<>>]

AppIdle ==
    /\ uploaded_files = <<>>
    /\ session = FreshSession
    /\ ocr_setting = TRUE
    /\ sidebar = <<>>
    /\ build_calls = <<>>
    /\ log = <<>>

AnswerIdle ==
    /\ question = <<>>
    /\ history = <<>>
    /\ client = FALSE
    /\ completion = [kind |-> "raises", content |-> <<>>]
    /\ model_calls = <<>>
    /\ response = <<>>

PipelineIdle == ChunkingIdle /\ PdfIdle /\ AppIdle /\ AnswerIdle

(***************************************************************************)
(* The index runs: a caller constructs indexes over one chunk list and     *)
(* searches them, one call after the other                                 *)
(***************************************************************************)
Init ==
    /\ called = FALSE
    /\ PipelineIdle
    /\ TokIdle
    /\ CtxIdle
    /\ corpus \in ChunkLists
    /\ indexes = <<>>
    /\ calls = [t \in Callers |-> IdleFrame]

\* InMemoryTfidfIndex(corpus): a new index object.  The caller is not inside
\* a search call of its own.
Construct ==
    /\ Len(indexes) < MaxIndexes
    /\ calls["t1"].pc = "idle"
    /\ \E set_orders \in SetOrders([i \in DOMAIN corpus |-> tokenize(corpus[i].text)]) :
          indexes' = Append(indexes, InMemoryTfidfIndex(corpus, set_orders))
    /\ UNCHANGED <<called, text, terms, corpus, calls, results, max_chars, context, pipeline_vars>>

\* indexes[ix].search(query, top_k, min_score), from call to return, the
\* arguments drawn from the given sets
SearchFrom(t, queries, top_ks, min_scores) ==
    /\ calls[t].pc = "idle"
    /\ \E ix \in DOMAIN indexes, query \in queries, top_k \in top_ks, min_score \in min_scores :
          /\ calls' = [calls EXCEPT ![t] = Call(ix, indexes[ix], query, top_k, min_score)]
          /\ indexes' = [indexes EXCEPT ![ix]._idf = IdfAfterVectorize(@, tokenize(query))]
    /\ UNCHANGED <<called, text, terms, corpus, results, max_chars, context, pipeline_vars>>

Search(t) == SearchFrom(t, Queries, TopKs, MinScores)

\* The caller takes the returned list; the frame is gone
Return(t) ==
    /\ calls[t].pc \in {"done", "raised"}
    /\ calls' = [calls EXCEPT ![t] = IdleFrame]
    /\ UNCHANGED <<called, text, terms, corpus, indexes, results, max_chars, context, pipeline_vars>>

Next == Construct \/ Search("t1") \/ Return("t1")

Spec == Init /\ [][Next]_vars

(***************************************************************************)
(* The ranking runs: one index over chunks of the retrieval test           *)
(* (test_search_ranks_most_relevant_chunk_first), searched with its query  *)
(* and with others                                                         *)
(***************************************************************************)
Chars(word) == CASE word = "apple" -> <<"a", "p", "p", "l", "e">>
                 [] word = "banana" -> <<"b", "a", "n", "a", "n", "a">>
                 [] word = "fruit" -> <<"f", "r", "u", "i", "t">>
                 [] word = "car" -> <<"c", "a", "r">>
                 [] word = "engine" -> <<"e", "n", "g", "i", "n", "e">>
                 [] word = "vehicle" -> <<"v", "e", "h", "i", "c", "l", "e">>
                 [] word = "pie" -> <<"p", "i", "e">>
                 [] word = "dessert" -> <<"d", "e", "s", "s", "e", "r", "t">>

RECURSIVE Sentence(_)
Sentence(words) ==
    IF Len(words) = 1 THEN Chars(words[1])
    ELSE Chars(words[1]) \o <<" ">> \o Sentence(Tail(words))

AppleBananaFruit == Sentence(<<"apple", "banana", "fruit">>)

CarEngineVehicle == Sentence(<<"car", "engine", "vehicle">>)

ApplePieAppleDessert == Sentence(<<"apple", "pie", "apple", "dessert">>)

RankTexts == {AppleBananaFruit, CarEngineVehicle, ApplePieAppleDessert}

\* The chunks of the test in every order, and every one or two of them
RankChunkLists ==
    UNION {{[i \in 1..n |-> Chunk(i, texts[i])] :
              texts \in {t \in [1..n -> RankTexts] : \A i, j \in 1..n : t[i] = t[j] => i = j}} :
           n \in 1..3}

ApplePie == Sentence(<<"apple", "pie">>)

RankQueries == {ApplePie, Sentence(<<"car", "pie">>), Sentence(<<"fruit">>)}

RankTopKs == {1, 3}

InitRank ==
    /\ called = FALSE
    /\ PipelineIdle
    /\ TokIdle
    /\ CtxIdle
    /\ corpus \in RankChunkLists
    /\ indexes = <<>>
    /\ calls = [t \in Callers |-> IdleFrame]

\* index = InMemoryTfidfIndex(chunks), once
RankConstruct == indexes = <<>> /\ Construct

\* index.search(query, top_k=..., min_score=0.0)
RankSearch == SearchFrom("t1", RankQueries, RankTopKs, {0})

NextRank == RankConstruct \/ RankSearch \/ Return("t1")

SpecRank == InitRank /\ [][NextRank]_vars

(***************************************************************************)
(* The tokenizer runs                                                      *)
(***************************************************************************)
InitTok ==
    /\ called = FALSE
    /\ PipelineIdle
    /\ text \in StringsUpTo(TextAlphabet, MaxTextLen)
    /\ terms = <<>>
    /\ CtxIdle
    /\ corpus = <<>>
    /\ indexes = <<>>
    /\ calls = [t \in Callers |-> IdleFrame]

NextTok == Tokenize

SpecTok == InitTok /\ [][NextTok]_vars

(***************************************************************************)
(* Concurrent searches of one built index: every caller runs search on its *)
(* own thread, the threads interleave between the statements of search     *)
(***************************************************************************)
ConcQueries == {<<"b">>, <<"C", " ", "a">>, <<"z">>}

ConcTopKs == {1, 5}

ConcMinScores == {0, 700}

InitConc ==
    /\ called = FALSE
    /\ PipelineIdle
    /\ TokIdle
    /\ CtxIdle
    /\ corpus \in ChunkLists
    /\ \E set_orders \in SetOrders([i \in DOMAIN corpus |-> tokenize(corpus[i].text)]) :
          indexes = <<InMemoryTfidfIndex(corpus, set_orders)>>
    /\ calls = [t \in Callers |-> IdleFrame]

\* The call, up to the for loop
SearchBegin(t) ==
    /\ calls[t].pc = "idle"
    /\ \E ix \in DOMAIN indexes, query \in ConcQueries, top_k \in ConcTopKs,
          min_score \in ConcMinScores :
          /\ calls' = [calls EXCEPT ![t] = Enter(ix, indexes[ix], query, top_k, min_score)]
          /\ indexes' = [indexes EXCEPT ![ix]._idf = IdfAfterVectorize(@, tokenize(query))]
    /\ UNCHANGED <<called, text, terms, corpus, results, max_chars, context, pipeline_vars>>

\* One pass of the for loop
SearchStep(t) ==
    /\ calls[t].pc = "loop"
    /\ calls[t].index <= Len(indexes[calls[t].self].chunks)
    /\ calls' = [calls EXCEPT ![t] = Iterate(indexes[calls[t].self], @)]
    /\ UNCHANGED <<called, text, terms, corpus, indexes, results, max_chars, context, pipeline_vars>>

\* The sort, the slice and the return
SearchEnd(t) ==
    /\ calls[t].pc = "loop"
    /\ calls[t].index > Len(indexes[calls[t].self].chunks)
    /\ calls' = [calls EXCEPT ![t] = Leave(@)]
    /\ UNCHANGED <<called, text, terms, corpus, indexes, results, max_chars, context, pipeline_vars>>

NextConc ==
    \E t \in Callers : SearchBegin(t) \/ SearchStep(t) \/ SearchEnd(t) \/ Return(t)

SpecConc == InitConc /\ [][NextConc]_vars

(***************************************************************************)
(* build_context                                                           *)
(***************************************************************************)
\* The characters str.strip() removes, among those of the inputs
Whitespace == {" ", "\n", "\t", "\r"}

RECURSIVE lstrip(_)
lstrip(s) == IF s # <<>> /\ Head(s) \in Whitespace THEN lstrip(Tail(s)) ELSE s

RECURSIVE rstrip(_)
rstrip(s) ==
    IF s # <<>> /\ s[Len(s)] \in Whitespace THEN rstrip(SubSeq(s, 1, Len(s) - 1)) ELSE s

\* A mutant of strip(): only leading whitespace goes
StripLeadingOnly(s) == lstrip(s)

\* str.strip()
strip(s) == rstrip(lstrip(s))

\* str(n) for n >= 0
RECURSIVE DecimalDigits(_)
DecimalDigits(n) ==
    IF n < 10 THEN <<Digits[n + 1]>>
    ELSE Append(DecimalDigits(n \div 10), Digits[(n % 10) + 1])

\* f"{score:.3f}", the score held in thousandths
FormatScore(score) ==
    LET magnitude == IF score < 0 THEN -score ELSE score
    IN  (IF score < 0 THEN <<"-">> ELSE <<>>)
        \o DecimalDigits(magnitude \div ScoreOne) \o <<".">>
        \o <<Digits[((magnitude \div 100) % 10) + 1], Digits[((magnitude \div 10) % 10) + 1],
             Digits[(magnitude % 10) + 1]>>

\* f"[{chunk_id} | {source_name} | score={score:.3f}]"
Header(result) ==
    <<"[">> \o result.chunk.chunk_id \o <<" ", "|", " ">> \o result.chunk.source_name
    \o <<" ", "|", " ", "s", "c", "o", "r", "e", "=">> \o FormatScore(result.score) \o <<"]">>

\* f"{header}\n{result.chunk.text}".strip()
Block(result) == strip(Header(result) \o <<"\n">> \o result.chunk.text)

\* A mutant of the budget test: the first block is not exempt
StopsAtAlways(sections, total_chars, estimated_length, limit) ==
    total_chars + estimated_length > limit

\* if sections and total_chars + estimated_length > max_chars: break
StopsAt(sections, total_chars, estimated_length, limit) ==
    sections # <<>> /\ total_chars + estimated_length > limit

\* The for loop of build_context: the sections it collects
RECURSIVE Sections(_, _, _, _)
Sections(remaining, sections, total_chars, limit) ==
    IF remaining = <<>> THEN sections
    ELSE LET block == Block(Head(remaining))
             estimated_length == Len(block) + 2
         IN  IF StopsAt(sections, total_chars, estimated_length, limit) THEN sections
             ELSE Sections(Tail(remaining), Append(sections, block),
                           total_chars + estimated_length, limit)

\* "\n\n".join(sections)
Join(sections) ==
    IF sections = <<>> THEN <<>>
    ELSE LET RECURSIVE J(_)
             J(k) == IF k = 1 THEN sections[1] ELSE J(k - 1) \o <<"\n", "\n">> \o sections[k]
         IN  J(Len(sections))

build_context(result_list, limit) == Join(Sections(result_list, <<>>, 0, limit))

(***************************************************************************)
(* The build_context runs                                                  *)
(***************************************************************************)
MaxResults == 3

\* Texts "aaaa", "b", "b \n" (trailing whitespace) and " " (whitespace only)
ResultPool ==
    {[chunk |-> Chunk(1, <<"a", "a", "a", "a">>), score |-> 900],
     [chunk |-> Chunk(2, <<"b">>), score |-> 50],
     [chunk |-> Chunk(3, <<"b", " ", "\n">>), score |-> 1000],
     [chunk |-> Chunk(4, <<" ">>), score |-> 7]}

\* max_chars: 8000 is the default
MaxCharsPool == {-1, 0, 60, 63, 8000}

ResultLists == UNION {[1..n -> ResultPool] : n \in 0..MaxResults}

InitCtx ==
    /\ called = FALSE
    /\ PipelineIdle
    /\ TokIdle
    /\ corpus = <<>>
    /\ indexes = <<>>
    /\ calls = [t \in Callers |-> IdleFrame]
    /\ results \in ResultLists
    /\ max_chars \in MaxCharsPool
    /\ context = <<>>

BuildContext ==
    /\ ~called
    /\ called' = TRUE
    /\ context' = build_context(results, max_chars)
    /\ UNCHANGED <<text, terms, corpus, indexes, calls, results, max_chars, pipeline_vars>>

NextCtx == BuildContext

SpecCtx == InitCtx /\ [][NextCtx]_vars

(***************************************************************************)
(* chunk_text (src/chatbot/documents.py)                                   *)
(***************************************************************************)
\* str.split(): the maximal runs of non-whitespace characters, in order
RECURSIVE SplitFrom(_, _, _)
SplitFrom(s, word, words) ==
    IF s = <<>> THEN (IF word = <<>> THEN words ELSE Append(words, word))
    ELSE IF Head(s) \in Whitespace
         THEN SplitFrom(Tail(s), <<>>, IF word = <<>> THEN words ELSE Append(words, word))
         ELSE SplitFrom(Tail(s), Append(word, Head(s)), words)

split(s) == SplitFrom(s, <<>>, <<>>)

\* " ".join(chunk_words)
RECURSIVE JoinWords(_)
JoinWords(chunk_words) ==
    IF chunk_words = <<>> THEN <<>>
    ELSE IF Len(chunk_words) = 1 THEN chunk_words[1]
         ELSE chunk_words[1] \o <<" ">> \o JoinWords(Tail(chunk_words))

\* words[start:end]
SliceWords(words, start, end) == SubSeq(words, start + 1, end)

\* A mutant of the validation: the overlap is compared with the size first
ChunkTextErrorOverlapFirst(size, overlap) ==
    IF overlap >= size THEN "chunk_overlap must be smaller than chunk_size"
    ELSE IF size <= 0 THEN "chunk_size must be greater than zero"
    ELSE IF overlap < 0 THEN "chunk_overlap cannot be negative"
    ELSE ""

\* The ValueError chunk_text raises for the arguments, "" if it raises none
ChunkTextError(size, overlap) ==
    IF size <= 0 THEN "chunk_size must be greater than zero"
    ELSE IF overlap < 0 THEN "chunk_overlap cannot be negative"
    ELSE IF overlap >= size THEN "chunk_overlap must be smaller than chunk_size"
    ELSE ""

\* step = chunk_size - chunk_overlap
Step(size, overlap) == size - overlap

\* A mutant of the loop exit: the loop runs to the end of range(...)
BreaksNever(end, words) == FALSE

\* if end == len(words): break
Breaks(end, words) == end = Len(words)

\* for start in range(0, len(words), step): ...
RECURSIVE Windows(_, _, _, _, _)
Windows(words, start, size, step, chunks) ==
    IF start >= Len(words) THEN chunks
    ELSE LET end == IF start + size < Len(words) THEN start + size ELSE Len(words)
             chunk_words == SliceWords(words, start, end)
         IN  IF chunk_words = <<>> THEN Windows(words, start + step, size, step, chunks)
             ELSE IF Breaks(end, words) THEN Append(chunks, JoinWords(chunk_words))
                  ELSE Windows(words, start + step, size, step,
                               Append(chunks, JoinWords(chunk_words)))

\* chunk_text(text, chunk_size, chunk_overlap): the list returned, when no
\* ValueError is raised
chunk_text(s, size, overlap) ==
    LET words == split(s)
    IN  IF words = <<>> THEN <<>>
        ELSE Windows(words, 0, size, Step(size, overlap), <<>>)

(***************************************************************************)
(* The chunk_text runs                                                     *)
(***************************************************************************)
MaxWords == 6

\* Word number i of the input texts
Word(i) == <<Digits[i + 1]>>

Separators == {<<" ">>, <<"\n", "\t">>}

Margins == {<<>>, <<" ">>}

\* Words 1..n with the separator between them
RECURSIVE TextOf(_, _)
TextOf(n, separator) ==
    IF n = 0 THEN <<>>
    ELSE IF n = 1 THEN Word(1)
         ELSE TextOf(n - 1, separator) \o separator \o Word(n)

\* Texts of 0..MaxWords words, with and without whitespace around them
ChunkedTexts ==
    {margin \o TextOf(n, separator) \o margin :
        n \in 0..MaxWords, separator \in Separators, margin \in Margins}

ChunkSizes == -1..4

ChunkOverlaps == -1..4

\* No retrieval call is in progress and none has been made
RetrievalIdle ==
    /\ terms = <<>>
    /\ corpus = <<>>
    /\ indexes = <<>>
    /\ calls = [t \in Callers |-> IdleFrame]
    /\ CtxIdle

retrieval_vars == <<terms, corpus, indexes, calls, results, max_chars, context>>

InitChunking ==
    /\ called = FALSE
    /\ RetrievalIdle
    /\ text \in ChunkedTexts
    /\ chunk_size \in ChunkSizes
    /\ chunk_overlap \in ChunkOverlaps
    /\ text_chunks = <<>>
    /\ error = ""
    /\ PdfIdle
    /\ AppIdle
    /\ AnswerIdle

\* chunk_text(text, chunk_size, chunk_overlap), from call to return or raise
ChunkText ==
    /\ ~called
    /\ called' = TRUE
    /\ error' = ChunkTextError(chunk_size, chunk_overlap)
    /\ text_chunks' = IF error' = "" THEN chunk_text(text, chunk_size, chunk_overlap)
                      ELSE <<>>
    /\ UNCHANGED <<text, chunk_size, chunk_overlap, retrieval_vars, pdf_vars, app_vars,
                   answer_vars>>

NextChunking == ChunkText

SpecChunking == InitChunking /\ [][NextChunking]_vars

(***************************************************************************)
(* extract_text_from_pdf (src/chatbot/documents.py).  A file is its pages, *)
(* each with the text PdfReader extracts from it (direct) and the text     *)
(* Tesseract reads off its rendered image (scan), and whether the OCR      *)
(* engine can be run.                                                      *)
(***************************************************************************)
MIN_DIRECT_PDF_TEXT_CHARS == 20

\* WHITESPACE_PATTERN.sub(" ", value): every run of whitespace becomes one space
RECURSIVE CollapseWhitespace(_)
CollapseWhitespace(value) ==
    IF value = <<>> THEN <<>>
    ELSE IF Head(value) \in Whitespace
         THEN <<" ">> \o CollapseWhitespace(lstrip(value))
         ELSE <<Head(value)>> \o CollapseWhitespace(Tail(value))

_normalize_text(value) == strip(CollapseWhitespace(value))

\* A mutant of the count: every character counts, not only the alphanumeric
HasEnoughCharacters(value, min_chars) == Len(value) >= min_chars

\* sum(character.isalnum() for character in value) >= min_chars
_has_enough_text(value, min_chars) ==
    Len(SelectSeq(value, LAMBDA character : character \in AsciiAlphanumerics)) >= min_chars

\* "\n".join(texts)
RECURSIVE JoinLines(_)
JoinLines(texts) ==
    IF texts = <<>> THEN <<>>
    ELSE IF Len(texts) = 1 THEN texts[1]
         ELSE texts[1] \o <<"\n">> \o JoinLines(Tail(texts))

\* The loop over reader.pages: page_texts
DirectTexts(file) == [i \in DOMAIN file.pages |-> _normalize_text(file.pages[i].direct)]

\* The loop over reader.pages: pages_for_ocr, page indices from 0 in page order
RECURSIVE PagesForOcr(_, _, _)
PagesForOcr(page_texts, enabled, page_index) ==
    IF page_index >= Len(page_texts) THEN <<>>
    ELSE (IF enabled /\ ~_has_enough_text(page_texts[page_index + 1], MIN_DIRECT_PDF_TEXT_CHARS)
          THEN <<page_index>> ELSE <<>>)
         \o PagesForOcr(page_texts, enabled, page_index + 1)

\* _extract_text_from_pdf_with_ocr, when the engine runs: the dict
\* ocr_text_by_page, an entry for every page of page_indices whose image
\* reads as some text
RECURSIVE _extract_text_from_pdf_with_ocr(_, _)
_extract_text_from_pdf_with_ocr(file, page_indices) ==
    IF page_indices = <<>> THEN <<>>
    ELSE LET page_index == Head(page_indices)
             cleaned == _normalize_text(file.pages[page_index + 1].scan)
         IN  (IF cleaned # <<>> THEN <<<<page_index, cleaned>>>> ELSE <<>>)
             \o _extract_text_from_pdf_with_ocr(file, Tail(page_indices))

\* if _has_enough_text(ocr_text, min_chars=1)
Replaces(ocr_text) == _has_enough_text(ocr_text, 1)

\* for page_index, ocr_text in ocr_text_by_page.items(): ...
RECURSIVE WithOcrTexts(_, _)
WithOcrTexts(page_texts, ocr_text_by_page) ==
    IF ocr_text_by_page = <<>> THEN page_texts
    ELSE LET page_index == Head(ocr_text_by_page)[1]
             ocr_text == Head(ocr_text_by_page)[2]
         IN  WithOcrTexts(IF Replaces(ocr_text)
                          THEN [page_texts EXCEPT ![page_index + 1] = ocr_text]
                          ELSE page_texts,
                          Tail(ocr_text_by_page))

\* A mutant of the test made when OCR fails: a page counts only with 20
\* letters or digits
NoDirectTextEnough(page_texts) ==
    \A i \in DOMAIN page_texts : ~_has_enough_text(page_texts[i], MIN_DIRECT_PDF_TEXT_CHARS)

\* not any(_has_enough_text(text, min_chars=1) for text in page_texts)
NoDirectText(page_texts) ==
    \A i \in DOMAIN page_texts : ~_has_enough_text(page_texts[i], 1)

\* extract_text_from_pdf(file_bytes, enable_ocr): the calls of
\* _extract_text_from_pdf_with_ocr it makes (the page_indices of each),
\* whether it raises, and the page texts and the string it returns
extract_text_from_pdf(file, enabled) ==
    LET page_texts == DirectTexts(file)
        pages_for_ocr == PagesForOcr(page_texts, enabled, 0)
        joined(texts) == JoinLines(SelectSeq(texts, LAMBDA t : t # <<>>))
    IN  IF pages_for_ocr = <<>>
        THEN [raised |-> FALSE, text |-> joined(page_texts), ocr_calls |-> <<>>,
              page_texts |-> page_texts]
        ELSE IF ~file.ocr_works
             THEN IF NoDirectText(page_texts)
                  THEN [raised |-> TRUE, text |-> <<>>, ocr_calls |-> <<pages_for_ocr>>,
                        page_texts |-> page_texts]
                  ELSE [raised |-> FALSE, text |-> joined(page_texts),
                        ocr_calls |-> <<pages_for_ocr>>, page_texts |-> page_texts]
             ELSE LET final == WithOcrTexts(page_texts,
                                            _extract_text_from_pdf_with_ocr(file, pages_for_ocr))
                  IN  [raised |-> FALSE, text |-> joined(final),
                       ocr_calls |-> <<pages_for_ocr>>, page_texts |-> final]

(***************************************************************************)
(* The extract_text_from_pdf runs                                          *)
(***************************************************************************)
MaxPages == 2

Repeat(c, n) == [i \in 1..n |-> c]

\* Direct texts: none, blank, one without a letter or digit, a short one, one
\* of 20 characters of which 19 are letters, one of 20 letters
DirectPool ==
    {<<>>, <<" ", "\n">>, <<"-", " ">>, <<"h", "i">>,
     Repeat("a", 10) \o <<" ">> \o Repeat("a", 9), Repeat("b", 20)}

\* What OCR reads: nothing, marks without a letter or digit, words
ScanPool == {<<>>, <<"-", "-">>, <<"o", "c", "r", " ", " ", "1">>}

PdfPages == [direct : DirectPool, scan : ScanPool]

\* Files PdfReader opens
PdfFiles ==
    [opens : {TRUE}, pages : UNION {[1..n -> PdfPages] : n \in 0..MaxPages},
     ocr_works : BOOLEAN]

InitPdf ==
    /\ called = FALSE
    /\ TokIdle
    /\ RetrievalIdle
    /\ ChunkingIdle
    /\ pdf \in PdfFiles
    /\ enable_ocr \in BOOLEAN
    /\ extraction = NoExtraction
    /\ AppIdle
    /\ AnswerIdle

\* extract_text_from_pdf(file_bytes, enable_ocr), from call to return or raise
ExtractTextFromPdf ==
    /\ ~called
    /\ called' = TRUE
    /\ extraction' = extract_text_from_pdf(pdf, enable_ocr)
    /\ UNCHANGED <<text, pdf, enable_ocr, retrieval_vars, chunking_vars, app_vars,
                   answer_vars>>

NextPdf == ExtractTextFromPdf

SpecPdf == InitPdf /\ [][NextPdf]_vars

(***************************************************************************)
(* From an uploaded file to its chunks (src/chatbot/documents.py).  The    *)
(* bytes of a file are modelled by what the parsers make of them: whether  *)
(* the file can be opened, its pages or paragraphs (direct, scan) and      *)
(* whether the OCR engine can be run.                                      *)
(***************************************************************************)
\* Path(file_name).suffix, for a name without directories: from the last dot,
\* when that dot is neither the first nor the last character
Suffix(file_name) ==
    LET dots == {i \in DOMAIN file_name : file_name[i] = "."}
    IN  IF dots = {} THEN <<>>
        ELSE LET last == CHOOSE i \in dots : \A j \in dots : j <= i
             IN  IF last = 1 \/ last = Len(file_name) THEN <<>>
                 ELSE SubSeq(file_name, last, Len(file_name))

\* SLUG_PATTERN.sub("-", value): every run of characters outside [a-zA-Z0-9]
\* becomes one "-"
RECURSIVE SlugSub(_, _)
SlugSub(value, in_run) ==
    IF value = <<>> THEN <<>>
    ELSE IF Head(value) \in AsciiAlphanumerics
         THEN <<Head(value)>> \o SlugSub(Tail(value), FALSE)
         ELSE (IF in_run THEN <<>> ELSE <<"-">>) \o SlugSub(Tail(value), TRUE)

\* str.strip("-")
RECURSIVE StripDashes(_)
StripDashes(value) ==
    IF value # <<>> /\ Head(value) = "-" THEN StripDashes(Tail(value))
    ELSE IF value # <<>> /\ value[Len(value)] = "-"
         THEN StripDashes(SubSeq(value, 1, Len(value) - 1))
         ELSE value

\* _slugify(value)
_slugify(value) ==
    LET slug == StripDashes(SlugSub(lower(strip(value)), FALSE))
    IN  IF slug = <<>> THEN <<"d", "o", "c", "u", "m", "e", "n", "t">> ELSE slug

\* extract_text_from_docx(file_bytes): the non-blank paragraphs, normalized,
\* one per line (a file that cannot be opened raises)
extract_text_from_docx(file) ==
    IF ~file.opens THEN [raised |-> TRUE, text |-> <<>>]
    ELSE [raised |-> FALSE,
          text |-> JoinLines(SelectSeq(DirectTexts(file), LAMBDA cleaned : cleaned # <<>>))]

\* extract_text_from_file(file_name, file_bytes, enable_pdf_ocr): whether it
\* raises and the text it returns
extract_text_from_file(file_name, file, enable_pdf_ocr) ==
    LET extension == lower(Suffix(file_name))
    IN  IF extension = <<".", "d", "o", "c", "x">> THEN extract_text_from_docx(file)
        ELSE IF extension = <<".", "p", "d", "f">>
             THEN IF ~file.opens THEN [raised |-> TRUE, text |-> <<>>]
                  ELSE LET outcome == extract_text_from_pdf(file, enable_pdf_ocr)
                       IN  [raised |-> outcome.raised, text |-> outcome.text]
             ELSE [raised |-> TRUE, text |-> <<>>]

\* f"{source_slug}-chunk-{index}"
ChunkId(source_slug, index) ==
    source_slug \o <<"-", "c", "h", "u", "n", "k", "-">> \o DecimalDigits(index)

\* _build_chunks_from_text(file_name, text, chunk_size, chunk_overlap): whether
\* it raises (chunk_text's ValueError) and the chunks it returns
_build_chunks_from_text(file_name, s, size, overlap) ==
    IF ChunkTextError(size, overlap) # "" THEN [raised |-> TRUE, chunks |-> <<>>]
    ELSE LET chunk_values == chunk_text(s, size, overlap)
             source_slug == _slugify(file_name)
         IN  [raised |-> FALSE,
              chunks |-> [index \in DOMAIN chunk_values |->
                            [chunk_id |-> ChunkId(source_slug, index),
                             source_name |-> file_name,
                             text |-> chunk_values[index]]]]

\* build_chunks_from_file(file_name, file_bytes, chunk_size, chunk_overlap,
\* enable_pdf_ocr): whether it raises, the chunks it returns, and the flag it
\* hands to extract_text_from_file
build_chunks_from_file(file_name, file, size, overlap, enable_pdf_ocr) ==
    LET extracted == extract_text_from_file(file_name, file, enable_pdf_ocr)
        built == _build_chunks_from_text(file_name, extracted.text, size, overlap)
    IN  IF extracted.raised
        THEN [raised |-> TRUE, chunks |-> <<>>, extract_enable_pdf_ocr |-> enable_pdf_ocr]
        ELSE [raised |-> built.raised, chunks |-> built.chunks,
              extract_enable_pdf_ocr |-> enable_pdf_ocr]

(***************************************************************************)
(* _process_uploads (src/app.py)                                           *)
(***************************************************************************)
\* build_chunks_from_file's default for enable_pdf_ocr, which the call in
\* _process_uploads leaves out
DefaultEnablePdfOcr == TRUE

Notice(kind, message, chunks, files, failed) ==
    [kind |-> kind, message |-> message, chunks |-> chunks, files |-> files,
     failed |-> failed]

\* st.sidebar.warning(...) / .error(...) with a fixed text
Plain(kind, message) == Notice(kind, message, 0, 0, <<>>)

\* The calls of build_chunks_from_file of the loop over uploaded_files, each
\* with its arguments and what came of it
RECURSIVE BuildCalls(_, _, _)
BuildCalls(files, size, overlap) ==
    IF files = <<>> THEN <<>>
    ELSE LET uploaded_file == Head(files)
             outcome == build_chunks_from_file(uploaded_file.name, uploaded_file.payload,
                                               size, overlap, DefaultEnablePdfOcr)
         IN  <<[file_name |-> uploaded_file.name, chunk_size |-> size,
                chunk_overlap |-> overlap, enable_pdf_ocr |-> DefaultEnablePdfOcr,
                extract_enable_pdf_ocr |-> outcome.extract_enable_pdf_ocr,
                raised |-> outcome.raised, chunks |-> outcome.chunks]>>
             \o BuildCalls(Tail(files), size, overlap)

\* A mutant of extend: the chunks of a file go in front
ExtendInFront(all_chunks, chunks) == chunks \o all_chunks

\* all_chunks.extend(chunks)
Extend(all_chunks, chunks) == all_chunks \o chunks

\* The loop over uploaded_files: all_chunks
RECURSIVE AllChunks(_, _)
AllChunks(made, all_chunks) ==
    IF made = <<>> THEN all_chunks
    ELSE AllChunks(Tail(made),
                   IF ~Head(made).raised /\ Head(made).chunks # <<>>
                   THEN Extend(all_chunks, Head(made).chunks) ELSE all_chunks)

\* The loop over uploaded_files: failed_files
FailedFiles(made) ==
    LET failed == SelectSeq(made, LAMBDA call : call.raised \/ call.chunks = <<>>)
    IN  [i \in DOMAIN failed |-> failed[i].file_name]

\* tokenized_chunks of the index built over the chunks
RECURSIVE TokenizedChunks(_)
TokenizedChunks(chunks) ==
    IF chunks = <<>> THEN <<>>
    ELSE <<tokenize(Head(chunks).text)>> \o TokenizedChunks(Tail(chunks))

\* A mutant of the second early return: the session is rebuilt on nothing
NothingReadableNever(all_chunks) == FALSE

\* if not all_chunks: ... return
NothingReadable(all_chunks) == all_chunks = <<>>

(***************************************************************************)
(* The _process_uploads runs: one click of "Process documents", in a       *)
(* session that is fresh or has an index and a chat history                *)
(***************************************************************************)
MaxFiles == 2

FileNames ==
    {<<"a", ".", "p", "d", "f">>, <<"A", ".", "p", "d", "f">>,
     <<"b", ".", "d", "o", "c", "x">>, <<"n", ".", "t", "x", "t">>}

\* A file with the text "7 7 7", a scanned page that only OCR reads ("4"), and
\* a file that cannot be opened
Payloads ==
    {[opens |-> TRUE, ocr_works |-> FALSE,
      pages |-> <<[direct |-> <<"7", " ", "7", " ", "7">>, scan |-> <<>>]>>],
     [opens |-> TRUE, ocr_works |-> TRUE,
      pages |-> <<[direct |-> <<>>, scan |-> <<"4">>]>>],
     [opens |-> FALSE, ocr_works |-> FALSE, pages |-> <<>>]}

UploadedFiles == [name : FileNames, payload : Payloads]

FileLists == UNION {[1..n -> UploadedFiles] : n \in 0..MaxFiles}

UploadChunkSizes == {2, 3}

UploadChunkOverlaps == {1, 2}

\* The chunks of an earlier upload
OldChunks ==
    _build_chunks_from_text(<<"o", ".", "d", "o", "c", "x">>, <<"9">>, 2, 1).chunks

OldMessages == <<[role |-> "user", content |-> "old"]>>

InitApp ==
    /\ called = FALSE
    /\ AnswerIdle
    /\ TokIdle
    /\ CtxIdle
    /\ PdfIdle
    /\ calls = [t \in Callers |-> IdleFrame]
    /\ text_chunks = <<>>
    /\ error = ""
    /\ chunk_size \in UploadChunkSizes
    /\ chunk_overlap \in UploadChunkOverlaps
    /\ uploaded_files \in FileLists
    /\ ocr_setting \in BOOLEAN
    /\ sidebar = <<>>
    /\ build_calls = <<>>
    /\ log = <<>>
    /\ \/ /\ session = FreshSession
          /\ corpus = <<>>
          /\ indexes = <<>>
       \/ /\ session = [chunks |-> OldChunks, index |-> 1, messages |-> OldMessages]
          /\ corpus = OldChunks
          /\ \E set_orders \in SetOrders([i \in DOMAIN OldChunks |-> tokenize(OldChunks[i].text)]) :
                indexes = <<InMemoryTfidfIndex(OldChunks, set_orders)>>

\* _process_uploads(chunk_size, chunk_overlap), from call to return: what it
\* does to the sidebar, the session and the index objects
_process_uploads ==
    /\ IF uploaded_files = <<>>
       THEN /\ sidebar' = Append(sidebar,
                   Plain("warning", "Upload at least one .docx or .pdf file first."))
            /\ UNCHANGED <<build_calls, session, corpus, indexes>>
       ELSE LET made == BuildCalls(uploaded_files, chunk_size, chunk_overlap)
                all_chunks == AllChunks(made, <<>>)
                failed_files == FailedFiles(made)
                processed_count == Len(uploaded_files) - Len(failed_files)
            IN  /\ build_calls' = made
                /\ IF NothingReadable(all_chunks)
                   THEN /\ sidebar' = Append(sidebar,
                               Plain("error", "No readable text found in the selected files."))
                        /\ UNCHANGED <<session, corpus, indexes>>
                   ELSE /\ corpus' = all_chunks
                        /\ \E set_orders \in SetOrders(TokenizedChunks(all_chunks)) :
                              indexes' = Append(indexes, InMemoryTfidfIndex(all_chunks, set_orders))
                        /\ session' = [chunks |-> all_chunks, index |-> Len(indexes) + 1,
                                       messages |-> <<>>]
                        /\ sidebar' =
                              sidebar
                              \o <<Notice("success", "Indexed {} chunk(s) from {} file(s).",
                                          Len(all_chunks), processed_count, <<>>)>>
                              \o (IF failed_files # <<>>
                                  THEN <<Notice("warning", "Could not parse: {}", 0, 0, failed_files)>>
                                  ELSE <<>>)

\* One click of "Process documents"
ProcessUploads ==
    /\ ~called
    /\ called' = TRUE
    /\ _process_uploads
    /\ UNCHANGED <<text, terms, calls, results, max_chars, context, chunk_size, chunk_overlap,
                   text_chunks, error, pdf_vars, uploaded_files, ocr_setting, answer_vars, log>>

NextApp == ProcessUploads

SpecApp == InitApp /\ [][NextApp]_vars

(***************************************************************************)
(* AnswerGenerator.answer (src/chatbot/llm.py).  A history entry is a dict *)
(* that may lack the key role or the key content.  The model call is what  *)
(* chat.completions.create does: it raises, or returns a response with no  *)
(* choice, with content None, or with a content string.                    *)
(***************************************************************************)
SYSTEM_PROMPT ==
    <<"Y", "o", "u", " ", "a", "r", "e", " ", "a", " ", "c", "a", "r", "e",
      "f", "u", "l", " ", "a", "s", "s", "i", "s", "t", "a", "n", "t", " ",
      "f", "o", "r", " ", "q", "u", "e", "s", "t", "i", "o", "n", "-", "a",
      "n", "s", "w", "e", "r", "i", "n", "g", " ", "o", "v", "e", "r", " ",
      "u", "p", "l", "o", "a", "d", "e", "d", " ", "d", "o", "c", "u", "m",
      "e", "n", "t", "s", ".", "\n", "O", "n", "l", "y", " ", "u", "s", "e",
      " ", "t", "h", "e", " ", "p", "r", "o", "v", "i", "d", "e", "d", " ",
      "c", "o", "n", "t", "e", "x", "t", " ", "s", "n", "i", "p", "p", "e",
      "t", "s", ".", "\n", "I", "f", " ", "t", "h", "e", " ", "c", "o", "n",
      "t", "e", "x", "t", " ", "d", "o", "e", "s", " ", "n", "o", "t", " ",
      "c", "o", "n", "t", "a", "i", "n", " ", "t", "h", "e", " ", "a", "n",
      "s", "w", "e", "r", ",", " ", "s", "a", "y", " ", "y", "o", "u", " ",
      "d", "o", " ", "n", "o", "t", " ", "k", "n", "o", "w", ".", "\n", "W",
      "h", "e", "n", " ", "p", "o", "s", "s", "i", "b", "l", "e", ",", " ",
      "i", "n", "c", "l", "u", "d", "e", " ", "s", "h", "o", "r", "t", " ",
      "c", "i", "t", "a", "t", "i", "o", "n", "s", " ", "i", "n", " ", "p",
      "a", "r", "e", "n", "t", "h", "e", "s", "e", "s", " ", "u", "s", "i",
      "n", "g", " ", "c", "h", "u", "n", "k", " ", "i", "d", "s", ".">>

NoMatchMessage ==
    <<"I", " ", "c", "o", "u", "l", "d", " ", "n", "o", "t", " ", "f", "i",
      "n", "d", " ", "r", "e", "l", "e", "v", "a", "n", "t", " ", "t", "e",
      "x", "t", " ", "i", "n", " ", "t", "h", "e", " ", "u", "p", "l", "o",
      "a", "d", "e", "d", " ", "d", "o", "c", "u", "m", "e", "n", "t", "s",
      " ", "f", "o", "r", " ", "t", "h", "a", "t", " ", "q", "u", "e", "s",
      "t", "i", "o", "n", ".">>

\* The first four of lines, joined by "\n"
FallbackHeading ==
    <<"I", " ", "f", "o", "u", "n", "d", " ", "r", "e", "l", "e", "v", "a",
      "n", "t", " ", "p", "a", "s", "s", "a", "g", "e", "s", ",", " ", "b",
      "u", "t", " ", "n", "o", " ", "L", "L", "M", " ", "i", "s", " ", "c",
      "o", "n", "f", "i", "g", "u", "r", "e", "d", ".", "\n", "S", "e", "t",
      " ", "O", "P", "E", "N", "A", "I", "_", "A", "P", "I", "_", "K", "E",
      "Y", " ", "i", "n", " ", "y", "o", "u", "r", " ", ".", "e", "n", "v",
      " ", "f", "i", "l", "e", " ", "f", "o", "r", " ", "f", "u", "l", "l",
      " ", "c", "o", "n", "v", "e", "r", "s", "a", "t", "i", "o", "n", "a",
      "l", " ", "a", "n", "s", "w", "e", "r", "s", ".", "\n", "\n", "C", "l",
      "o", "s", "e", "s", "t", " ", "e", "x", "c", "e", "r", "p", "t", "s",
      ":">>

\* The first two lines of user_prompt and the blank line after them
PromptInstructions ==
    <<"A", "n", "s", "w", "e", "r", " ", "t", "h", "e", " ", "q", "u", "e",
      "s", "t", "i", "o", "n", " ", "u", "s", "i", "n", "g", " ", "o", "n",
      "l", "y", " ", "t", "h", "e", " ", "c", "o", "n", "t", "e", "x", "t",
      " ", "s", "n", "i", "p", "p", "e", "t", "s", " ", "b", "e", "l", "o",
      "w", ".", "\n", "I", "f", " ", "i", "n", "f", "o", "r", "m", "a", "t",
      "i", "o", "n", " ", "i", "s", " ", "m", "i", "s", "s", "i", "n", "g",
      ",", " ", "s", "a", "y", " ", "y", "o", "u", " ", "d", "o", " ", "n",
      "o", "t", " ", "k", "n", "o", "w", ".", "\n", "\n">>

\* str.replace("\n", " ")
RECURSIVE ReplaceNewlines(_)
ReplaceNewlines(s) ==
    IF s = <<>> THEN <<>>
    ELSE <<IF Head(s) = "\n" THEN " " ELSE Head(s)>> \o ReplaceNewlines(Tail(s))

\* excerpt, cut to 317 characters and "..." when longer than 320
Excerpt(chunk_text_value) ==
    LET excerpt == strip(ReplaceNewlines(chunk_text_value))
    IN  IF Len(excerpt) > 320 THEN SubSeq(excerpt, 1, 317) \o <<".", ".", ".">> ELSE excerpt

\* f"- {source_name} ({chunk_id}, score={score:.3f}): {excerpt}"
FallbackLine(result) ==
    <<"-", " ">> \o result.chunk.source_name \o <<" ", "(">> \o result.chunk.chunk_id
    \o <<",", " ", "s", "c", "o", "r", "e", "=">> \o FormatScore(result.score)
    \o <<")", ":", " ">> \o Excerpt(result.chunk.text)

RECURSIVE FallbackLines(_)
FallbackLines(shown) ==
    IF shown = <<>> THEN <<>>
    ELSE <<"\n">> \o FallbackLine(Head(shown)) \o FallbackLines(Tail(shown))

\* _fallback_answer(results): the heading and a line for each of results[:3]
_fallback_answer(result_list) ==
    FallbackHeading
    \o FallbackLines(SubSeq(result_list, 1, IF Len(result_list) < 3 THEN Len(result_list) ELSE 3))

HistoryWindowSize == 8

\* A mutant of the window: the first entries, history[:8]
HistoryWindowFirst(entries) ==
    SubSeq(entries, 1, IF Len(entries) < HistoryWindowSize THEN Len(entries)
                       ELSE HistoryWindowSize)

\* history[-8:]
HistoryWindow(entries) ==
    SubSeq(entries,
           IF Len(entries) > HistoryWindowSize THEN Len(entries) - HistoryWindowSize + 1 ELSE 1,
           Len(entries))

\* The loop over history[-8:]: the messages appended
RECURSIVE HistoryMessages(_)
HistoryMessages(window) ==
    IF window = <<>> THEN <<>>
    ELSE LET message == Head(window)
             content == strip(IF message.has_content THEN message.content ELSE <<>>)
         IN  (IF message.has_role /\ message.role \in {"user", "assistant"} /\ content # <<>>
              THEN <<[role |-> message.role, content |-> content]>> ELSE <<>>)
             \o HistoryMessages(Tail(window))

DefaultMaxChars == 8000

\* user_prompt
UserPrompt(asked, context_value) ==
    PromptInstructions
    \o <<"Q", "u", "e", "s", "t", "i", "o", "n", ":", "\n">> \o asked \o <<"\n", "\n">>
    \o <<"C", "o", "n", "t", "e", "x", "t", " ", "s", "n", "i", "p", "p", "e", "t", "s", ":", "\n">>
    \o context_value

\* messages, as given to chat.completions.create
Messages(asked, result_list, entries) ==
    <<[role |-> "system", content |-> SYSTEM_PROMPT]>>
    \o HistoryMessages(HistoryWindow(entries))
    \o <<[role |-> "user",
          content |-> UserPrompt(asked, build_context(result_list, DefaultMaxChars))]>>

\* answer = response.choices[0].message.content; if answer: ...
IsAnswer(made) == made.kind = "text" /\ made.content # <<>>

\* answer(question, results, history): the string returned and the messages
\* of every call of the model
answer(has_client, asked, result_list, entries, made) ==
    IF result_list = <<>> THEN [response |-> NoMatchMessage, model_calls |-> <<>>]
    ELSE IF ~has_client
         THEN [response |-> _fallback_answer(result_list), model_calls |-> <<>>]
         ELSE LET messages == Messages(asked, result_list, entries)
              IN  IF IsAnswer(made)
                  THEN [response |-> strip(made.content), model_calls |-> <<messages>>]
                  ELSE [response |-> _fallback_answer(result_list),
                        model_calls |-> <<messages>>]

(***************************************************************************)
(* The answer runs                                                         *)
(***************************************************************************)
MaxHistory == 10

\* The text of history entry number i
Said(i) == <<"m", Digits[(i % 10) + 1]>>

\* History entry number i, of one of six kinds: a user entry, an assistant
\* entry with whitespace around its content, an entry of another role, a user
\* entry with blank content, an entry without role, an entry without content
Entry(i, kind) ==
    CASE kind = 0 -> [has_role |-> TRUE, role |-> "user", has_content |-> TRUE,
                      content |-> Said(i)]
      [] kind = 1 -> [has_role |-> TRUE, role |-> "assistant", has_content |-> TRUE,
                      content |-> <<" ">> \o Said(i) \o <<"\n">>]
      [] kind = 2 -> [has_role |-> TRUE, role |-> "tool", has_content |-> TRUE,
                      content |-> Said(i)]
      [] kind = 3 -> [has_role |-> TRUE, role |-> "user", has_content |-> TRUE,
                      content |-> <<" ", " ", " ">>]
      [] kind = 4 -> [has_role |-> FALSE, role |-> "", has_content |-> TRUE,
                      content |-> Said(i)]
      [] kind = 5 -> [has_role |-> TRUE, role |-> "assistant", has_content |-> FALSE,
                      content |-> <<>>]

\* Histories of 0..MaxHistory entries: user entries only, or the six kinds in
\* turn from some kind on
Histories ==
    {[i \in 1..n |-> Entry(i, 0)] : n \in 0..MaxHistory}
    \cup {[i \in 1..n |-> Entry(i, (i + offset) % 6)] : n \in 0..MaxHistory, offset \in 0..5}

Questions == {<<"q", "?">>}

\* No result, one, and four
AnswerResultLists ==
    {<<>>,
     <<[chunk |-> Chunk(1, <<"a", "a", "a", "a">>), score |-> 900]>>,
     <<[chunk |-> Chunk(1, <<"a", "\n", "a">>), score |-> 900],
       [chunk |-> Chunk(2, <<"b">>), score |-> 50],
       [chunk |-> Chunk(3, <<"b", " ", "\n">>), score |-> 1000],
       [chunk |-> Chunk(4, <<" ">>), score |-> 7]>>}

\* The call raises; the response has no choice; its content is None, "",
\* blank, or an answer with whitespace around it
Completions ==
    {[kind |-> "raises", content |-> <<>>],
     [kind |-> "no choice", content |-> <<>>],
     [kind |-> "None", content |-> <<>>],
     [kind |-> "text", content |-> <<>>],
     [kind |-> "text", content |-> <<" ", "\n">>],
     [kind |-> "text", content |-> <<" ", "o", "k", "\n">>]}

InitAnswer ==
    /\ called = FALSE
    /\ TokIdle
    /\ terms = <<>>
    /\ corpus = <<>>
    /\ indexes = <<>>
    /\ calls = [t \in Callers |-> IdleFrame]
    /\ max_chars = 0
    /\ context = <<>>
    /\ ChunkingIdle
    /\ PdfIdle
    /\ AppIdle
    /\ results \in AnswerResultLists
    /\ question \in Questions
    /\ history \in Histories
    /\ client \in BOOLEAN
    /\ completion \in Completions
    /\ model_calls = <<>>
    /\ response = <<>>

\* answer(question, results, history), from call to return
Answer ==
    /\ ~called
    /\ called' = TRUE
    /\ LET outcome == answer(client, question, results, history, completion)
       IN  /\ response' = outcome.response
           /\ model_calls' = outcome.model_calls
    /\ UNCHANGED <<text, terms, corpus, indexes, calls, results, max_chars, context,
                   chunking_vars, pdf_vars, app_vars, question, history, client, completion>>

NextAnswer == Answer

SpecAnswer == InitAnswer /\ [][NextAnswer]_vars

(***************************************************************************)
(* main (src/app.py): one run of the script for every event of the page.   *)
(* A session starts as _initialize_state leaves it.  The files of the      *)
(* uploader change in a run without a question; "Process documents" runs   *)
(* _process_uploads before the script; "Clear chat" and a submitted        *)
(* question are handled in the script.  log records what each run did.     *)
(***************************************************************************)
ChatTopK == 5

DefaultMinScore == 50

\* {"role": "user", "content": question}
UserMessage(asked) == [role |-> "user", content |-> asked]

\* preview, cut to 177 characters and "..." when longer than 180
Preview(chunk_text_value) ==
    LET preview == strip(ReplaceNewlines(chunk_text_value))
    IN  IF Len(preview) > 180 THEN SubSeq(preview, 1, 177) \o <<".", ".", ".">> ELSE preview

\* sources, an entry for every search result
RECURSIVE Sources(_)
Sources(search_results) ==
    IF search_results = <<>> THEN <<>>
    ELSE <<[chunk_id |-> Head(search_results).chunk.chunk_id,
            document |-> Head(search_results).chunk.source_name,
            score |-> Head(search_results).score,
            preview |-> Preview(Head(search_results).chunk.text)]>>
         \o Sources(Tail(search_results))

\* {"role": "assistant", "content": answer, "sources": sources}
AssistantMessage(answered, sources) ==
    [role |-> "assistant", content |-> answered, sources |-> sources]

\* A mutant of the history passed: the whole of messages, the question too
HistoryPassedWhole(messages) == messages

\* st.session_state.messages[:-1]
HistoryPassed(messages) == SubSeq(messages, 1, Len(messages) - 1)

\* The messages as answer reads them: every one has a role and a content
RECURSIVE AsHistory(_)
AsHistory(messages) ==
    IF messages = <<>> THEN <<>>
    ELSE <<[has_role |-> TRUE, role |-> Head(messages).role,
            has_content |-> TRUE, content |-> Head(messages).content]>>
         \o AsHistory(Tail(messages))

\* What a run did: the index object _process_uploads built (0: none), the
\* index objects searched, the histories given to answer, and the session's
\* index and messages at the end of the run
RunOf(event, asked, built, searched, histories, ended) ==
    [event |-> event, question |-> asked, built |-> built, searched |-> searched,
     histories |-> histories, index |-> ended.index, messages |-> ended.messages]

(***************************************************************************)
(* The chat sessions                                                       *)
(***************************************************************************)
MaxRuns == 4

\* Uploads: none, a file with the text "7 7 7", a file that cannot be opened
ChatFileLists ==
    {<<>>,
     <<[name |-> <<"a", ".", "p", "d", "f">>,
        payload |-> [opens |-> TRUE, ocr_works |-> FALSE,
                     pages |-> <<[direct |-> <<"7", " ", "7", " ", "7">>, scan |-> <<>>]>>]]>>,
     <<[name |-> <<"b", ".", "d", "o", "c", "x">>,
        payload |-> [opens |-> FALSE, ocr_works |-> FALSE, pages |-> <<>>]]>>}

\* Questions: a term of the upload, and a term that is not in it
ChatQuestions == {<<"7">>, <<"z">>}

\* The model call raises, or answers
ChatCompletions ==
    {[kind |-> "raises", content |-> <<>>],
     [kind |-> "text", content |-> <<" ", "o", "k", "\n">>]}

InitChat ==
    /\ called = FALSE
    /\ TokIdle
    /\ CtxIdle
    /\ PdfIdle
    /\ calls = [t \in Callers |-> IdleFrame]
    /\ text_chunks = <<>>
    /\ error = ""
    /\ chunk_size = 2
    /\ chunk_overlap = 1
    /\ uploaded_files = <<>>
    /\ ocr_setting = TRUE
    /\ sidebar = <<>>
    /\ build_calls = <<>>
    /\ session = FreshSession
    /\ corpus = <<>>
    /\ indexes = <<>>
    /\ question = <<>>
    /\ history = <<>>
    /\ client \in BOOLEAN
    /\ completion = [kind |-> "raises", content |-> <<>>]
    /\ model_calls = <<>>
    /\ response = <<>>
    /\ log = <<>>

\* The files of the uploader change; the script runs with no button clicked
\* and no question (if not question: return)
SelectFiles ==
    /\ \E files \in ChatFileLists : uploaded_files' = files
    /\ UNCHANGED <<called, text, terms, corpus, indexes, calls, results, max_chars, context,
                   chunking_vars, pdf_vars, session, ocr_setting, sidebar, build_calls,
                   answer_vars, log>>

\* "Process documents" is clicked: _process_uploads, then the script with no
\* question
ClickProcess ==
    /\ Len(log) < MaxRuns
    /\ _process_uploads
    /\ log' = Append(log, RunOf("upload", <<>>,
                                IF Len(indexes') > Len(indexes) THEN Len(indexes') ELSE 0,
                                <<>>, <<>>, session'))
    /\ UNCHANGED <<called, text, terms, calls, results, max_chars, context, chunking_vars,
                   pdf_vars, uploaded_files, ocr_setting, answer_vars>>

\* "Clear chat" is clicked
ClearChat ==
    /\ Len(log) < MaxRuns
    /\ session' = [session EXCEPT !.messages = <<>>]
    /\ sidebar' = Append(sidebar, Plain("success", "Chat history cleared."))
    /\ log' = Append(log, RunOf("clear", <<>>, 0, <<>>, <<>>, session'))
    /\ UNCHANGED <<called, text, terms, corpus, indexes, calls, results, max_chars, context,
                   chunking_vars, pdf_vars, uploaded_files, ocr_setting, build_calls,
                   answer_vars>>

\* A question is submitted in the chat input
Submit ==
    /\ Len(log) < MaxRuns
    /\ \E asked \in ChatQuestions,
          made \in IF client THEN ChatCompletions ELSE {completion} :
          IF session.index = 0
          THEN /\ log' = Append(log, RunOf("submit", asked, 0, <<>>, <<>>, session))
               /\ UNCHANGED <<session, results, answer_vars>>
          ELSE LET with_question == Append(session.messages, UserMessage(asked))
                   search_results == search(indexes[session.index], asked, ChatTopK,
                                            DefaultMinScore)
                   passed == AsHistory(HistoryPassed(with_question))
                   outcome == answer(client, asked, search_results, passed, made)
               IN  /\ session' = [session EXCEPT !.messages =
                                     Append(with_question,
                                            AssistantMessage(outcome.response,
                                                             Sources(search_results)))]
                   /\ results' = search_results
                   /\ question' = asked
                   /\ history' = passed
                   /\ completion' = made
                   /\ model_calls' = outcome.model_calls
                   /\ response' = outcome.response
                   /\ client' = client
                   /\ log' = Append(log, RunOf("submit", asked, 0, <<session.index>>,
                                               <<passed>>, session'))
    /\ UNCHANGED <<called, text, terms, corpus, indexes, calls, max_chars, context,
                   chunking_vars, pdf_vars, uploaded_files, ocr_setting, sidebar, build_calls>>

NextChat == SelectFiles \/ ClickProcess \/ ClearChat \/ Submit

SpecChat == InitChat /\ [][NextChat]_vars

(***************************************************************************)
(* Properties of search, over the index runs.  The call under examination  *)
(* is the one caller t1 has just completed.                                *)
(***************************************************************************)
Returned == calls["t1"].pc = "done"

Frame == calls["t1"]

Self == indexes[calls["t1"].self]

\* The terms of chunk number i of the index under examination
ChunkTerms(i) == tokenize(Self.chunks[i].text)

\* The query vector of the call, from the index as it stands
QueryVector == _vectorize_terms(Self._idf, tokenize(Frame.query))

\* The cosine scores of the call: chunk number i has one when the query vector
\* and the chunk's vector are both non-empty
Scores ==
    LET query_vector == QueryVector
        query_norm == Norm(query_vector)
    IN  [i \in {j \in DOMAIN Self.chunks : query_vector # <<>> /\ Self._norms[j] # 0} |->
            Cosine(query_vector, query_norm, Self._vectors[i], Self._norms[i])]

\* The chunks with a non-zero norm and a score >= min_score
Qualifying ==
    LET scores == Scores IN {i \in DOMAIN scores : scores[i] >= Frame.min_score}

\* The position in the chunk list of the chunk of result number n
PositionOf(n) == CHOOSE i \in DOMAIN Self.chunks : Self.chunks[i] = Frame.result[n].chunk

\* C1: for top_k >= 0, search returns at most top_k results: exactly top_k when
\* at least top_k chunks have a non-zero norm and a score >= min_score, and
\* otherwise all such chunks.
C1_ResultCount ==
    (Returned /\ Frame.top_k >= 0) =>
        LET qualifying == Qualifying
        IN  /\ Len(Frame.result) <= Frame.top_k
            /\ Len(Frame.result) =
                  (IF Cardinality(qualifying) >= Frame.top_k THEN Frame.top_k
                   ELSE Cardinality(qualifying))
            /\ Cardinality(qualifying) < Frame.top_k =>
                  {PositionOf(n) : n \in DOMAIN Frame.result} = qualifying

\* C1 witness: two chunks qualify and top_k = 1 cuts the list to one result
C1_Witness ==
    /\ Returned
    /\ Frame.top_k = 1
    /\ Cardinality(Qualifying) = 2
    /\ Len(Frame.result) = 1

\* C2: the scores of the returned results are non-increasing in output order,
\* each is >= min_score, and a min_score above every chunk's score yields the
\* empty list (a return, not an exception).
C2_OrderedAboveThreshold ==
    /\ Frame.pc # "raised"
    /\ Returned =>
        /\ \A m, n \in DOMAIN Frame.result :
              m < n => Frame.result[m].score >= Frame.result[n].score
        /\ \A n \in DOMAIN Frame.result : Frame.result[n].score >= Frame.min_score
        /\ Qualifying = {} => Frame.result = <<>>

\* C2 witness: the later chunk scores higher and is returned first
C2_Witness ==
    /\ Returned
    /\ Len(Frame.result) = 2
    /\ Frame.result[1].score > Frame.result[2].score
    /\ PositionOf(1) > PositionOf(2)
    /\ Frame.result[2].score >= Frame.min_score
    /\ Frame.min_score > 0

\* The four degenerate cases of C3
EmptyIndex == Self.chunks = <<>>

QueryWithoutTerms == tokenize(Frame.query) = <<>>

NoQueryTermInAnyChunk ==
    \A term \in Range(tokenize(Frame.query)) :
        \A i \in DOMAIN Self.chunks : term \notin Range(ChunkTerms(i))

NoChunkHasTerms == \A i \in DOMAIN Self.chunks : ChunkTerms(i) = <<>>

\* C3: whatever top_k and min_score are, search returns the empty list and does
\* not raise when the index holds no chunk, the query has no term, no query
\* term occurs in any chunk, or no chunk has any term.
C3_DegenerateEmpty ==
    (Frame.pc # "idle"
       /\ (EmptyIndex \/ QueryWithoutTerms \/ NoQueryTermInAnyChunk \/ NoChunkHasTerms))
    => (Returned /\ Frame.result = <<>>)

\* C3 witness: a query whose only term is in no chunk, against chunks that have
\* terms, with min_score below zero: nothing is returned
C3_Witness ==
    /\ Returned
    /\ ~EmptyIndex /\ ~QueryWithoutTerms /\ ~NoChunkHasTerms
    /\ NoQueryTermInAnyChunk
    /\ Frame.min_score < 0
    /\ Frame.top_k = 5
    /\ Frame.result = <<>>

\* How often term occurs in term_list
Occurrences(term_list, term) == Cardinality({k \in DOMAIN term_list : term_list[k] = term})

\* The largest number of occurrences of one term in a non-empty term_list
MostOccurrences(term_list) ==
    CHOOSE n \in 1..Len(term_list) :
        /\ \E term \in Range(term_list) : Occurrences(term_list, term) = n
        /\ \A term \in Range(term_list) : Occurrences(term_list, term) <= n

\* The term lists of a chunk list
RECURSIVE TermLists(_)
TermLists(chunks) ==
    IF chunks = <<>> THEN <<>>
    ELSE <<tokenize(Head(chunks).text)>> \o TermLists(Tail(chunks))

\* The TF-IDF weights of chunk number i of the chunks whose term lists are
\* term_lists, as a set of <<term, weight>> pairs: for each term of the chunk,
\* occurrences / most occurrences * IDF, the IDF of a term being
\* ln((N + 1) / (df + 1)) + 1 with df the number of chunks the term is in
ExpectedWeights(term_lists, i) ==
    {<<term,
       (Occurrences(term_lists[i], term)
          * (Log(Len(term_lists) + 1,
                 Cardinality({j \in DOMAIN term_lists : term \in Range(term_lists[j])}) + 1)
             + One))
       \div MostOccurrences(term_lists[i])>> : term \in Range(term_lists[i])}

\* Index x is aligned with the chunks whose term lists are term_lists: one
\* vector and one norm per chunk, the vector holding each term of the chunk
\* once, with its weight, and the norm being the Euclidean norm of the vector
Aligned(x, term_lists) ==
    /\ Len(x._vectors) = Len(x.chunks)
    /\ Len(x._norms) = Len(x.chunks)
    /\ \A i \in DOMAIN x.chunks :
          LET vector == x._vectors[i]
              squares == Sum([k \in DOMAIN vector |-> vector[k][2] * vector[k][2]])
          IN  /\ Range(vector) = ExpectedWeights(term_lists, i)
              /\ Len(vector) = Cardinality(Range(term_lists[i]))
              /\ x._norms[i] * x._norms[i] <= squares
              /\ squares < (x._norms[i] + 1) * (x._norms[i] + 1)

\* C7: after construction over any chunk list, the empty one included, and
\* after any sequence of search calls, the vector list and the norm list are
\* as long as the chunk list, and position i of each holds the vector and the
\* Euclidean norm computed from the terms of chunk i.
C7_VectorsAligned ==
    LET term_lists == TermLists(corpus)
    IN  \A ix \in DOMAIN indexes :
            indexes[ix].chunks = corpus /\ Aligned(indexes[ix], term_lists)

\* C7 witness: a search has returned results from an index whose first chunk
\* has no term (an empty vector, norm 0) and whose second chunk has terms
C7_Witness ==
    /\ Returned
    /\ Frame.result # <<>>
    /\ Len(Self.chunks) = 2
    /\ ChunkTerms(1) = <<>> /\ Self._vectors[1] = <<>> /\ Self._norms[1] = 0
    /\ ChunkTerms(2) # <<>> /\ Self._norms[2] > 0

\* C9: two indexes built from the same chunk list give the same query, top_k
\* and min_score the same result list: the same chunks, order and scores.
C9_RebuildSameResults ==
    Returned =>
        \A j \in DOMAIN indexes :
            LET other == Call(j, indexes[j], Frame.query, Frame.top_k, Frame.min_score)
            IN  /\ indexes[j].chunks = Self.chunks
                /\ other.pc = "done"
                /\ other.result = Frame.result

\* C9 witness: two indexes over the same chunks whose IDF maps were filled in
\* different orders, and a call that returned two results
C9_Witness ==
    /\ Returned
    /\ Len(indexes) = 2
    /\ indexes[1]._idf # indexes[2]._idf
    /\ Len(Frame.result) = 2

\* C10: a chunk whose stored norm is zero, one whose text has no term, is in
\* no result list, whatever the query, top_k and min_score; no call divides
\* by a zero norm.
C10_ZeroNormExcluded ==
    /\ Frame.pc # "raised"
    /\ Returned =>
          \A n \in DOMAIN Frame.result :
              /\ Self._norms[PositionOf(n)] # 0
              /\ ChunkTerms(PositionOf(n)) # <<>>
    /\ Frame.pc # "idle" =>
          \A i \in DOMAIN Self.chunks : (Self._norms[i] = 0) <=> (ChunkTerms(i) = <<>>)

\* C10 witness: with min_score below zero and room for five results, only the
\* chunk with terms is returned; the chunk without terms is left out
C10_Witness ==
    /\ Returned
    /\ Frame.min_score < 0
    /\ Frame.top_k = 5
    /\ Len(Self.chunks) = 2
    /\ Self._norms[2] = 0
    /\ Len(Frame.result) = 1
    /\ PositionOf(1) = 1

(***************************************************************************)
(* Properties of tokenize, over the tokenizer runs                         *)
(***************************************************************************)
\* text[s..e] holds term characters only
IsRun(s, e) == \A k \in s..e : IsTermChar(text[k])

\* The positions where a term starts: a letter or digit that no earlier letter
\* or digit reaches through term characters
TermStarts ==
    {s \in DOMAIN text :
        /\ IsTermStart(text[s])
        /\ ~\E j \in 1..(s - 1) : IsTermStart(text[j]) /\ IsRun(j, s - 1)}

\* Where the term starting at s ends: the run cannot be extended to the right
TermEnd(s) ==
    CHOOSE e \in s..Len(text) :
        IsRun(s, e) /\ (e = Len(text) \/ ~IsTermChar(text[e + 1]))

\* The start of term number n, counting from the left
NthStart(n) == CHOOSE s \in TermStarts : Cardinality({x \in TermStarts : x <= s}) = n

\* C6: tokenize returns, from left to right and with duplicates kept, exactly
\* the maximal runs that start with an ASCII letter or digit and go on with
\* letters, digits, apostrophes or hyphens, each lowercased; every other
\* character separates, so a text without letters and digits yields the empty
\* list, and a leading apostrophe or hyphen is in no term.
C6_TokenizeMaximalRuns ==
    called =>
        /\ Len(terms) = Cardinality(TermStarts)
        /\ \A n \in DOMAIN terms :
              LET s == NthStart(n)
                  e == TermEnd(s)
              IN  /\ Len(terms[n]) = e - s + 1
                  /\ \A k \in DOMAIN terms[n] :
                        /\ terms[n][k] = LowerChar(text[s + k - 1])
                        /\ terms[n][k] \notin Range(UpperLetters)
                  /\ terms[n][1] \notin {"'", "-"}
        /\ (\A k \in DOMAIN text : ~IsTermStart(text[k])) => terms = <<>>

\* C6 witness: "-B B" gives "b" twice: the hyphen is dropped, the case is
\* folded, the duplicate is kept
C6_Witness ==
    /\ called
    /\ text = <<"-", "B", " ", "B">>
    /\ terms = <<(<<"b">>), (<<"b">>)>>

(***************************************************************************)
(* Properties of build_context, over the build_context runs                *)
(***************************************************************************)
\* The running total of (block length + 2) over the first j results
RECURSIVE BudgetUsed(_)
BudgetUsed(j) == IF j = 0 THEN 0 ELSE BudgetUsed(j - 1) + Len(Block(results[j])) + 2

\* C4: build_context includes exactly a prefix of the results: the first block
\* whatever its length and max_chars, a later block only if the running total
\* of (block length + 2) stays <= max_chars, and nothing after the first block
\* that does not fit; no result yields the empty string.
C4_PrefixWithinBudget ==
    called =>
        /\ results = <<>> => context = <<>>
        /\ \E n \in 0..Len(results) :
              /\ context = Join([i \in 1..n |-> Block(results[i])])
              /\ results # <<>> => n >= 1
              /\ \A j \in 2..n : BudgetUsed(j) <= max_chars
              /\ (1 <= n /\ n < Len(results)) => BudgetUsed(n + 1) > max_chars

\* C4 witness: the second block does not fit and the third, shorter one would
\* have fitted after the first; only the first is in the context
C4_Witness ==
    /\ called
    /\ Len(results) = 3
    /\ context = Block(results[1])
    /\ BudgetUsed(2) > max_chars
    /\ BudgetUsed(1) + Len(Block(results[3])) + 2 <= max_chars

\* s without its leading and trailing whitespace
Trimmed(s) ==
    LET inked == {k \in DOMAIN s : s[k] \notin Whitespace}
    IN  IF inked = {} THEN <<>>
        ELSE SubSeq(s, CHOOSE a \in inked : \A k \in inked : a <= k,
                       CHOOSE b \in inked : \A k \in inked : k <= b)

\* The value of a digit character
DigitValue(c) == (CHOOSE d \in DOMAIN Digits : Digits[d] = c) - 1

\* The number a string of digits denotes
RECURSIVE Denoted(_)
Denoted(s) == IF s = <<>> THEN 0 ELSE 10 * Denoted(SubSeq(s, 1, Len(s) - 1)) + DigitValue(s[Len(s)])

\* field is score written with three decimals: digits, a point, three digits,
\* no needless leading zero, and the number denoted is the score
IsThreeDecimals(field, score) ==
    /\ Len(field) >= 5
    /\ field[Len(field) - 3] = "."
    /\ \A k \in DOMAIN field : k # Len(field) - 3 => field[k] \in Range(Digits)
    /\ (Len(field) > 5 => field[1] # "0")
    /\ ScoreOne * Denoted(SubSeq(field, 1, Len(field) - 4))
          + Denoted(SubSeq(field, Len(field) - 2, Len(field))) = score

\* The block of a result: header, newline, text, trimmed as a whole
ExpectedBlock(result) ==
    Trimmed(<<"[">> \o result.chunk.chunk_id \o <<" ", "|", " ">>
            \o result.chunk.source_name \o <<" ", "|", " ">>
            \o <<"s", "c", "o", "r", "e", "=">> \o FormatScore(result.score)
            \o <<"]", "\n">> \o result.chunk.text)

\* The first n blocks with one blank line between two of them
RECURSIVE ExpectedContext(_)
ExpectedContext(n) ==
    IF n = 0 THEN <<>>
    ELSE IF n = 1 THEN ExpectedBlock(results[1])
         ELSE ExpectedContext(n - 1) \o <<"\n", "\n">> \o ExpectedBlock(results[n])

\* C5: the context is the included blocks in input order with exactly one
\* blank line between two of them, each block being the header
\* "[<chunk_id> | <source_name> | score=<score with 3 decimals>]", a newline
\* and the chunk text, with the whitespace at both ends of the block removed.
C5_ContextFormat ==
    called =>
        /\ context = ExpectedContext(Len(Sections(results, <<>>, 0, max_chars)))
        /\ \A i \in DOMAIN results : IsThreeDecimals(FormatScore(results[i].score),
                                                     results[i].score)

\* C5 witness: two blocks; the first one's text "b \n" ends in whitespace that
\* is removed, so that exactly one blank line separates it from the second
C5_Witness ==
    /\ called
    /\ Len(results) = 2
    /\ results[1].chunk.text = <<"b", " ", "\n">>
    /\ results[1].score = 1000
    /\ Len(context) = Len(Header(results[1])) + 2 + 2 + Len(Block(results[2]))
    /\ SubSeq(context, 21, 32) = <<"1", ".", "0", "0", "0", "]", "\n", "b", "\n", "\n", "[", "c">>

(***************************************************************************)
(* Properties of concurrent searches, over the concurrent runs             *)
(***************************************************************************)
\* C8: no step of any search call changes the index (chunks, IDF map, vectors,
\* norms), and every call that returns, however its steps interleave with
\* those of the other caller, returns what the same call returns run alone.
C8_SearchReadOnly ==
    [][/\ indexes' = indexes
       /\ \A t \in Callers :
             calls'[t].pc # "raised"
             /\ (calls'[t].pc = "done" =>
                    calls'[t].result = search(indexes[calls'[t].self], calls'[t].query,
                                              calls'[t].top_k, calls'[t].min_score))]_vars

\* C8 witness: both callers are inside the loop of search at once, on the same
\* index, with different queries; t1 has scored both chunks, t2 the first one
C8_Witness ==
    /\ calls["t1"].pc = "loop" /\ calls["t2"].pc = "loop"
    /\ calls["t1"].self = calls["t2"].self
    /\ calls["t1"].query # calls["t2"].query
    /\ calls["t1"].index = 3 /\ Len(calls["t1"].scored) = 2
    /\ calls["t2"].index = 2 /\ Len(calls["t2"].scored) = 1

C22_TiesKeepChunkOrder ==
    Returned =>
        /\ \A n \in DOMAIN Frame.result : \E i \in DOMAIN Self.chunks :
              Self.chunks[i] = Frame.result[n].chunk
        /\ \A m, n \in DOMAIN Frame.result :
              /\ (m < n /\ Frame.result[m].score = Frame.result[n].score) =>
                    PositionOf(m) < PositionOf(n)
              /\ (Frame.result[m].chunk = Frame.result[n].chunk) => m = n

\* C22 witness: of three chunks the last alone has the query's term; it is the
\* first result, and the other two, both of score 0.0, follow it in the order
\* of the chunk list
C22_Witness ==
    /\ Returned
    /\ Frame.query = Sentence(<<"fruit">>) /\ Frame.top_k = 3
    /\ [i \in 1..Len(Self.chunks) |-> Self.chunks[i].text]
          = <<CarEngineVehicle, ApplePieAppleDessert, AppleBananaFruit>>
    /\ Len(Frame.result) = 3
    /\ Frame.result[1].chunk = Self.chunks[3]
    /\ Frame.result[2].chunk = Self.chunks[1]
    /\ Frame.result[3].chunk = Self.chunks[2]
    /\ Frame.result[2].score = Frame.result[3].score

(***************************************************************************)
(* Properties of chunk_text, over the chunk_text runs                      *)
(***************************************************************************)
\* C13: chunk_text raises ValueError and returns no chunks when
\* chunk_size <= 0, else when chunk_overlap < 0, else when
\* chunk_overlap >= chunk_size, the first rule violated in that order giving
\* the message; for every other pair of parameters it raises nothing,
\* whatever the text.
C13_ChunkTextValidation ==
    called =>
        /\ (chunk_size <= 0) => error = "chunk_size must be greater than zero"
        /\ (chunk_size > 0 /\ chunk_overlap < 0) => error = "chunk_overlap cannot be negative"
        /\ (chunk_size > 0 /\ chunk_overlap >= 0 /\ chunk_overlap >= chunk_size) =>
              error = "chunk_overlap must be smaller than chunk_size"
        /\ (chunk_size > 0 /\ chunk_overlap >= 0 /\ chunk_overlap < chunk_size) => error = ""
        /\ (error # "") => text_chunks = <<>>

\* C13 witness: a call that breaks the first and the second rule has raised
\* with the first rule's message, on a text that has words
C13_Witness ==
    /\ called
    /\ chunk_size = 0 /\ chunk_overlap = -1
    /\ Len(text) >= 3
    /\ error = "chunk_size must be greater than zero"
    /\ text_chunks = <<>>

\* The words of the input text: every word of these texts is one character
InputWords == SelectSeq(text, LAMBDA c : c \notin Whitespace)

\* The positions of the words window number i (from 0) is to cover
WindowRange(i) ==
    LET step == chunk_size - chunk_overlap
        n == Len(InputWords)
        last == IF i * step + chunk_size < n THEN i * step + chunk_size ELSE n
    IN  (i * step + 1)..last

\* The words of a returned chunk, which is words joined by single spaces
WordsOf(chunk) == [j \in 1..((Len(chunk) + 1) \div 2) |-> chunk[2 * j - 1]]

\* C14: for valid parameters and a text of n >= 1 words, chunk_text returns
\* windows where window i (from 0) holds the words [i*step, min(i*step +
\* chunk_size, n)), step = chunk_size - chunk_overlap: every word is in some
\* window, every window has 1..chunk_size words, consecutive windows share
\* exactly chunk_overlap words, every window after the first has a word that
\* is in no earlier window, and the last window ends at the last word; a text
\* with no words gives no windows.
C14_ChunkTextWindows ==
    (called /\ error = "") =>
        LET n == Len(InputWords)
            count == Len(text_chunks)
        IN  /\ (n = 0) => count = 0
            /\ (n >= 1) =>
                  /\ count >= 1
                  /\ \A i \in 0..(count - 1) :
                        LET chunk == text_chunks[i + 1]
                            range == WindowRange(i)
                        IN  /\ Len(chunk) % 2 = 1
                            /\ \A j \in 1..Len(chunk) : (j % 2 = 0) => chunk[j] = " "
                            /\ Cardinality(range) = Len(WordsOf(chunk))
                            /\ \A k \in range : InputWords[k] = WordsOf(chunk)[k - i * (chunk_size - chunk_overlap)]
                            /\ Cardinality(range) \in 1..chunk_size
                            /\ (i > 0) =>
                                  /\ Cardinality(range \cap WindowRange(i - 1)) = chunk_overlap
                                  /\ range \ UNION {WindowRange(h) : h \in 0..(i - 1)} # {}
                  /\ \A k \in 1..n : \E i \in 0..(count - 1) : k \in WindowRange(i)
                  /\ \E k \in WindowRange(count - 1) : k = n

\* C14 witness: six words in windows of four with an overlap of two give
\* "1 2 3 4" and "3 4 5 6"
C14_Witness ==
    /\ called /\ error = ""
    /\ chunk_size = 4 /\ chunk_overlap = 2
    /\ Len(InputWords) = 6
    /\ text_chunks = << <<"1", " ", "2", " ", "3", " ", "4">>,
                       <<"3", " ", "4", " ", "5", " ", "6">> >>

(***************************************************************************)
(* Properties of extract_text_from_pdf, over the extract_text_from_pdf runs *)
(***************************************************************************)
\* The letters and digits of a text, in order
Alphanumerics(value) == SelectSeq(value, LAMBDA c : c \in AsciiAlphanumerics)

\* The page indices (from 0) whose directly extracted text has fewer than 20
\* letters and digits
LowTextPages ==
    {i - 1 : i \in {j \in DOMAIN pdf.pages :
                      Len(Alphanumerics(pdf.pages[j].direct)) < MIN_DIRECT_PDF_TEXT_CHARS}}

\* The characters of a text that are not whitespace, in order
Visible(value) == SelectSeq(value, LAMBDA c : c \notin Whitespace)

\* C20: extract_text_from_pdf invokes OCR at most once, only when OCR is
\* enabled and some page has fewer than 20 alphanumeric characters of direct
\* text, and passes it exactly the indices of those pages (in page order); the
\* text of a page with 20 or more alphanumeric characters is never replaced,
\* and an OCR result replaces a page's text only if it has an alphanumeric
\* character.
C20_OcrOnlyForLowTextPages ==
    called =>
        /\ Len(extraction.ocr_calls) <= 1
        /\ (extraction.ocr_calls # <<>>) =>
              LET page_indices == extraction.ocr_calls[1]
              IN  /\ enable_ocr
                  /\ LowTextPages # {}
                  /\ Range(page_indices) = LowTextPages
                  /\ \A i, j \in DOMAIN page_indices : i < j => page_indices[i] < page_indices[j]
        /\ Len(extraction.page_texts) = Len(pdf.pages)
        /\ \A i \in DOMAIN pdf.pages :
              LET direct == pdf.pages[i].direct
                  scan == pdf.pages[i].scan
                  kept == Visible(extraction.page_texts[i]) = Visible(direct)
              IN  /\ (i - 1 \notin LowTextPages) => kept
                  /\ ~kept => /\ Alphanumerics(scan) # <<>>
                              /\ Visible(extraction.page_texts[i]) = Visible(scan)
                              /\ extraction.ocr_calls # <<>>

\* C20 witness: of two pages the first has 20 letters and the second 19 in 20
\* characters; OCR was called once, for the second page alone, and its text
\* replaced that page's
C20_Witness ==
    /\ called /\ enable_ocr /\ pdf.ocr_works
    /\ Len(pdf.pages) = 2
    /\ pdf.pages[1].direct = Repeat("b", 20)
    /\ Len(pdf.pages[2].direct) = 20 /\ Len(Alphanumerics(pdf.pages[2].direct)) = 19
    /\ extraction.ocr_calls = << <<1>> >>
    /\ extraction.page_texts = <<Repeat("b", 20), <<"o", "c", "r", " ", "1">> >>
    /\ ~extraction.raised

\* The OCR step was made and failed with RuntimeError
OcrFailed == called /\ extraction.ocr_calls # <<>> /\ ~pdf.ocr_works

\* The directly extracted text of page i, whitespace normalised
DirectText(i) == _normalize_text(pdf.pages[i].direct)

\* The non-empty directly extracted texts of pages i and after, each followed
\* by a newline
RECURSIVE DirectLinesFrom(_)
DirectLinesFrom(i) ==
    IF i > Len(pdf.pages) THEN <<>>
    ELSE (IF DirectText(i) = <<>> THEN <<>> ELSE DirectText(i) \o <<"\n">>)
         \o DirectLinesFrom(i + 1)

\* C21: when the OCR step of extract_text_from_pdf fails with RuntimeError, the
\* error is re-raised if and only if no page has any alphanumeric character of
\* directly extracted text; otherwise the call returns exactly the non-empty
\* directly extracted page texts joined by newlines, in page order, with no
\* page text changed.
C21_OcrFailureKeepsDirectText ==
    OcrFailed =>
        /\ extraction.raised
              <=> \A i \in DOMAIN pdf.pages : Alphanumerics(pdf.pages[i].direct) = <<>>
        /\ ~extraction.raised =>
              /\ extraction.text \o <<"\n">> = DirectLinesFrom(1)
              /\ Len(extraction.page_texts) = Len(pdf.pages)
              /\ \A i \in DOMAIN pdf.pages : extraction.page_texts[i] = DirectText(i)

\* C21 witness: OCR failed for a file of two pages, the first with marks but
\* no letter or digit and the second with two letters; the call returned both
\* texts, joined by a newline
C21_Witness ==
    /\ OcrFailed
    /\ Len(pdf.pages) = 2
    /\ pdf.pages[1].direct = <<"-", " ">>
    /\ pdf.pages[2].direct = <<"h", "i">>
    /\ ~extraction.raised
    /\ extraction.text = <<"-", "\n", "h", "i">>

(***************************************************************************)
(* Properties of _process_uploads, over the _process_uploads runs          *)
(***************************************************************************)
\* The uploaded files have names that differ from one another
DistinctFileNames ==
    \A i, j \in DOMAIN uploaded_files :
        uploaded_files[i].name = uploaded_files[j].name => i = j

\* C11: in every chunk list that _process_uploads passes to an index
\* construction, the chunk_id values are pairwise distinct, whatever the set
\* of uploaded file names.
C11_ChunkIdsDistinct ==
    (called /\ DistinctFileNames) =>
        \A i, j \in DOMAIN corpus : corpus[i].chunk_id = corpus[j].chunk_id => i = j

\* A call of build_chunks_from_file that returned a non-empty chunk list
Yielding(call) == ~call.raised /\ call.chunks # <<>>

\* The chunks of the calls that yielded some, in the order of the calls
RECURSIVE Concatenated(_)
Concatenated(made) ==
    IF made = <<>> THEN <<>>
    ELSE Concatenated(SubSeq(made, 1, Len(made) - 1))
         \o (IF Yielding(made[Len(made)]) THEN made[Len(made)].chunks ELSE <<>>)

\* The names of the files whose call raised or yielded nothing, in upload order
NotYielding(made) ==
    LET failed == SelectSeq(made, LAMBDA call : ~Yielding(call))
    IN  [i \in 1..Len(failed) |-> failed[i].file_name]

\* C17: when at least one uploaded file yields chunks, _process_uploads leaves
\* the session with chunks equal to the chunks of the yielding files in upload
\* order, with index a newly constructed index over exactly that list (the
\* index objects there were are as they were), and with messages empty; the
\* files that raised or yielded nothing add no chunk and are reported as failed.
C17_UploadsRebuildSession ==
    [][(/\ ~called /\ called'
        /\ \E i \in DOMAIN build_calls' : Yielding(build_calls'[i])) =>
          /\ Len(build_calls') = Len(uploaded_files)
          /\ \A i \in DOMAIN uploaded_files : build_calls'[i].file_name = uploaded_files[i].name
          /\ session'.chunks = Concatenated(build_calls')
          /\ Len(indexes') = Len(indexes) + 1
          /\ \A i \in DOMAIN indexes : indexes'[i] = indexes[i]
          /\ session'.index = Len(indexes')
          /\ \E set_orders \in SetOrders([i \in DOMAIN session'.chunks |->
                                             tokenize(session'.chunks[i].text)]) :
                indexes'[session'.index] = InMemoryTfidfIndex(session'.chunks, set_orders)
          /\ session'.messages = <<>>
          /\ LET failed == NotYielding(build_calls')
                 shown == SubSeq(sidebar', Len(sidebar) + 1, Len(sidebar'))
             IN  /\ shown[1].kind = "success"
                 /\ shown[1].chunks = Len(session'.chunks)
                 /\ shown[1].files = Len(uploaded_files) - Len(failed)
                 /\ IF failed = <<>> THEN Len(shown) = 1
                    ELSE /\ Len(shown) = 2
                         /\ shown[2].kind = "warning"
                         /\ shown[2].failed = failed]_vars

\* C17 witness: in a session with an index and a chat history, two files were
\* uploaded; the first yielded nothing, the second two chunks; the session now
\* holds these two chunks, a second index object, and no message
C17_Witness ==
    /\ called
    /\ Len(uploaded_files) = 2
    /\ ~Yielding(build_calls[1]) /\ Len(build_calls[2].chunks) = 2
    /\ session.chunks = build_calls[2].chunks
    /\ session.index = 2 /\ Len(indexes) = 2
    /\ indexes[1].chunks = OldChunks
    /\ indexes[2].chunks = session.chunks
    /\ session.messages = <<>>
    /\ Len(sidebar) = 2

\* C18: when no file is uploaded, or every uploaded file raises or yields no
\* chunks, _process_uploads shows a warning (no file) or the error "No
\* readable text found in the selected files." and leaves the session's
\* chunks, index and messages, and the index objects, as they were.
C18_FailedUploadsKeepSession ==
    [][(/\ ~called /\ called'
        /\ \A i \in DOMAIN build_calls' : ~Yielding(build_calls'[i])) =>
          /\ session' = session
          /\ indexes' = indexes
          /\ Len(sidebar') = Len(sidebar) + 1
          /\ LET shown == sidebar'[Len(sidebar')]
             IN  IF uploaded_files = <<>>
                 THEN /\ shown.kind = "warning"
                      /\ shown.message = "Upload at least one .docx or .pdf file first."
                      /\ build_calls' = <<>>
                 ELSE /\ shown.kind = "error"
                      /\ shown.message = "No readable text found in the selected files."
                      /\ Len(build_calls') = Len(uploaded_files)]_vars

\* C18 witness: in a session with an index and a chat history, both uploaded
\* files failed; the error is shown, and index and history are still there
C18_Witness ==
    /\ called
    /\ Len(uploaded_files) = 2 /\ Len(build_calls) = 2
    /\ build_calls[1].raised
    /\ ~build_calls[2].raised /\ build_calls[2].chunks = <<>>
    /\ sidebar = <<Plain("error", "No readable text found in the selected files.")>>
    /\ session = [chunks |-> OldChunks, index |-> 1, messages |-> OldMessages]
    /\ Len(indexes) = 1

\* C19: _process_uploads takes an enable_pdf_ocr argument and passes it
\* unchanged, with chunk_size and chunk_overlap, to build_chunks_from_file for
\* every uploaded file, and build_chunks_from_file passes the flag unchanged to
\* extract_text_from_file.
C19_OcrFlagForwarded ==
    called =>
        /\ Len(build_calls) = Len(uploaded_files)
        /\ \A i \in DOMAIN build_calls :
              /\ build_calls[i].file_name = uploaded_files[i].name
              /\ build_calls[i].chunk_size = chunk_size
              /\ build_calls[i].chunk_overlap = chunk_overlap
              /\ build_calls[i].enable_pdf_ocr = ocr_setting
              /\ build_calls[i].extract_enable_pdf_ocr = build_calls[i].enable_pdf_ocr

(***************************************************************************)
(* Properties of AnswerGenerator.answer, over the answer runs.             *)
(***************************************************************************)
\* The model returns empty content: no choice, None or ""
EmptyContent == completion.kind \in {"no choice", "None"} \/ completion.content = <<>>

NonBlank(s) == \E i \in DOMAIN s : s[i] \notin Whitespace

\* The positions of the last 8 entries of history
LastEntries == {i \in DOMAIN history : i > Len(history) - 8}

\* Of these, the entries of role user or assistant with non-blank content
SentEntries ==
    {i \in LastEntries :
        /\ history[i].has_role /\ history[i].role \in {"user", "assistant"}
        /\ history[i].has_content /\ NonBlank(history[i].content)}

\* The k-th of the sent entries, in the order of history
SentEntry(k) == CHOOSE i \in SentEntries : Cardinality({j \in SentEntries : j <= i}) = k

\* Whether part occurs in whole
Contains(whole, part) ==
    \E i \in 1..(Len(whole) - Len(part) + 1) : SubSeq(whole, i, i + Len(part) - 1) = part

\* C16: the message list answer sends to the model is the system prompt first,
\* then only the entries of the last 8 of history whose role is user or
\* assistant and whose content is non-blank, content stripped, in their
\* original order, then the user prompt with the question and the context
\* last; so at most 8 history messages are sent, whatever the history length.
C16_MessagesSent ==
    \A c \in DOMAIN model_calls :
        LET messages == model_calls[c]
            sent == SubSeq(messages, 2, Len(messages) - 1)
            prompt == messages[Len(messages)]
        IN  /\ Len(messages) >= 2
            /\ messages[1] = [role |-> "system", content |-> SYSTEM_PROMPT]
            /\ Len(sent) = Cardinality(SentEntries)
            /\ Len(sent) <= 8
            /\ \A k \in DOMAIN sent :
                  /\ sent[k].role = history[SentEntry(k)].role
                  /\ sent[k].content = strip(history[SentEntry(k)].content)
            /\ prompt.role = "user"
            /\ Contains(prompt.content, question)
            /\ Contains(prompt.content, build_context(results, DefaultMaxChars))

\* C16 witness: the model was called with a history of more than 8 entries,
\* of which some of the last 8 are sent, one of them stripped, and some are
\* not, and of which an earlier entry would have been sent
C16_Witness ==
    /\ called
    /\ Len(model_calls) = 1
    /\ Len(history) > 8
    /\ SentEntries # {} /\ SentEntries # LastEntries
    /\ \E i \in SentEntries : strip(history[i].content) # history[i].content
    /\ \E i \in DOMAIN history \ LastEntries :
          history[i].has_role /\ history[i].role = "user" /\ NonBlank(history[i].content)
    /\ Len(model_calls[1]) = Cardinality(SentEntries) + 2

(***************************************************************************)
(* Properties of main, over the chat sessions                              *)
(***************************************************************************)
\* The session's messages when run k starts
MessagesBefore(k) == IF k = 1 THEN <<>> ELSE log[k - 1].messages

\* The session's index when run k starts, 0 for None
IndexBefore(k) == IF k = 1 THEN 0 ELSE log[k - 1].index

\* The runs before run k in which _process_uploads built and stored an index
SuccessfulUploads(k) == {j \in 1..(k - 1) : log[j].event = "upload" /\ log[j].built # 0}

\* The index stored by the most recent of them
LastStored(k) ==
    log[CHOOSE j \in SuccessfulUploads(k) : \A i \in SuccessfulUploads(k) : i <= j].built

\* C23: over any sequence of chat submissions, uploads and chat clears, a
\* question submitted while the session index is None appends nothing to
\* messages and performs no search; a question submitted with an index appends
\* exactly one user message and then exactly one assistant message, the history
\* passed to the answer generator is the message list without the current
\* question, and the search runs against the index stored by the most recent
\* successful _process_uploads.
C23_ChatRuns ==
    \A k \in DOMAIN log :
        log[k].event = "submit" =>
            LET before == MessagesBefore(k)
                after == log[k].messages
            IN  IF IndexBefore(k) = 0
                THEN /\ after = before
                     /\ log[k].searched = <<>>
                     /\ log[k].histories = <<>>
                ELSE /\ Len(after) = Len(before) + 2
                     /\ SubSeq(after, 1, Len(before)) = before
                     /\ after[Len(before) + 1] = [role |-> "user", content |-> log[k].question]
                     /\ after[Len(before) + 2].role = "assistant"
                     /\ Len(log[k].histories) = 1
                     /\ Len(log[k].histories[1]) = Len(before)
                     /\ \A i \in DOMAIN before :
                           /\ log[k].histories[1][i].role = before[i].role
                           /\ log[k].histories[1][i].content = before[i].content
                     /\ SuccessfulUploads(k) # {}
                     /\ log[k].searched = <<LastStored(k)>>

\* C23 witness: two uploads are indexed, one after the other; the next
\* question is searched in the second index, with no history, and a further
\* one with the two messages of the one before as history
C23_Witness ==
    /\ Len(log) = 4
    /\ log[1].event = "upload" /\ log[1].built = 1
    /\ log[2].event = "upload" /\ log[2].built = 2
    /\ log[3].event = "submit" /\ log[3].searched = <<2>> /\ log[3].histories = << <<>> >>
    /\ Len(log[3].messages) = 2
    /\ log[4].event = "submit" /\ log[4].searched = <<2>>
    /\ Len(log[4].histories[1]) = 2 /\ Len(log[4].messages) = 4

\* The other cases: a question submitted in a fresh session and again after an
\* upload that failed, nothing appended or searched; and a question searched
\* in the first index after a second upload failed
SubmittedWithoutIndex ==
    /\ Len(log) >= 3
    /\ log[1].event = "submit"
    /\ log[2].event = "upload" /\ log[2].built = 0
    /\ log[3].event = "submit" /\ log[3].messages = <<>> /\ log[3].searched = <<>>

SubmittedAfterFailedUpload ==
    /\ Len(log) >= 3
    /\ log[1].event = "upload" /\ log[1].built = 1
    /\ log[2].event = "upload" /\ log[2].built = 0
    /\ log[3].event = "submit" /\ log[3].searched = <<1>>

====
